---- MODULE Spec2Model ----
(***************************************************************************)
(* Model of the `tables` crate of telestall: the in-memory table, the      *)
(* Cache decorator (origin + mirror), the Clock decorator (TTL-throttled   *)
(* version checks) and the fork! fan-out synchronizer.                     *)
(*                                                                         *)
(* Components are generic in the source (any O / C / I with a Result       *)
(* type). Here the origin, the mirror and every subscriber behave as an    *)
(* InMemTable whose calls may additionally return Err (the adapter-defined *)
(* error of the generic component); a call that returns Err leaves the     *)
(* called component unchanged.                                             *)
(***************************************************************************)
EXTENDS Integers, Sequences, FiniteSets, TLC

\* ---------------------------------------------------------------- bounds
NumEntries == 1      \* distinct record values
MaxLen     == 1      \* longest argument of extend / update
MaxRows    == 1      \* longest table (slots)
MaxVersion == 6      \* cap of the process-wide version generator (cache runs)
MaxForkVersion == 12 \* cap of the version generator (fan-out runs)
TTL        == 1      \* the Clock's time-to-live, in ticks
NumSubs    == 3      \* declared subscribers of the fork

E       == 1..NumEntries
None    == 0                        \* Option::None in a slot
AgeCap  == TTL + 2                  \* durations saturate here

Min(a, b) == IF a < b THEN a ELSE b
Max(a, b) == IF a > b THEN a ELSE b

SeqsUpTo(n) == UNION {[1..k -> E] : k \in 0..n}
Inputs      == SeqsUpTo(MaxLen)

\* ------------------------------------------------------- in-memory table
\* InMemTable { rows: Vec<Option<E>>, version: u64 }
InMemTable(rows, version) == [rows |-> rows, version |-> version]

\* fault variant of read: absent slots are not skipped
read_with_gaps(t) == t.rows

\* rows.iter().filter_map(..): the present records in position order
read(t) == SelectSeq(t.rows, LAMBDA x : x # None)

\* fault variant of _extend: the version is not renewed
_extend_stale(t, entries, v) == [rows |-> t.rows \o entries, version |-> t.version]

\* _extend: append, then version = next_version() (v is the drawn value)
_extend(t, entries, v) == [rows |-> t.rows \o entries, version |-> v]

\* fault variant of _update: the table ends where the write ends
_update_shrinking(t, from_row, entries, v) ==
    LET n   == Len(entries)
        len == IF n = 0 THEN Len(t.rows) ELSE from_row + n
    IN [rows    |-> [i \in 1..len |->
                        IF i > from_row /\ i <= from_row + n
                        THEN entries[i - from_row]
                        ELSE IF i <= Len(t.rows) THEN t.rows[i] ELSE None],
        version |-> v]

\* _update: write entries at from_row.., resizing with None as needed
_update(t, from_row, entries, v) ==
    LET n   == Len(entries)
        len == IF n = 0 THEN Len(t.rows) ELSE Max(Len(t.rows), from_row + n)
    IN [rows    |-> [i \in 1..len |->
                        IF i > from_row /\ i <= from_row + n
                        THEN entries[i - from_row]
                        ELSE IF i <= Len(t.rows) THEN t.rows[i] ELSE None],
        version |-> v]

\* clear: rows.clear(); version = 0
clear(t) == [rows |-> <<>>, version |-> 0]

\* -------------------------------------------------------------- state
VARIABLES
    VERSION,               \* static VERSION: AtomicU64 (next value handed out)
    origin,                \* Cache.origin (the wrapped table when clocked)
    cache,                 \* Cache.cache, the mirror
    last_origin_version,   \* Cache.last_origin_version
    clocked,               \* the origin is wrapped in a Clock
    cached_version,        \* Clock.cached_version
    elapsed,               \* now - Clock.last_cache_update, saturating
    initial_version,       \* the value Clock::new drew for cached_version
    report,                \* last version the wrapped component reported to
                           \* the Clock and its age: <<v, age>>, or <<>>
    sinceInner,            \* ticks since the last wrapped version() call, -1: none
    dirty,                 \* mark_as_dirty() happened, no refresh got a version since
    observed,              \* the version the last refresh got from the origin, -1: none
    phase,                 \* "active" | "quiet" (no writes, no failing calls)
    fork,                  \* [origin |-> table, subs |-> <<table, ...>>]
    table,                 \* an InMemTable used on its own
    index,                 \* Index.map: key -> Vec<(usize, V)>
    inserted,              \* keys handed to the Index since new() / clear()
    sheet,                 \* the Sheet adapter and the spreadsheet's meta cell
    gen,                   \* values next_version() handed to concurrent tasks
    codec,                 \* a RowSerializer / RowDeserializer at work
    range,                 \* a range reference being parsed
    lastOp                 \* what the last operation did and returned

vars == <<VERSION, origin, cache, last_origin_version, clocked, cached_version,
          elapsed, initial_version, report, sinceInner, dirty, observed,
          phase, fork, table, index, inserted, sheet, gen, codec, range,
          lastOp>>

\* the components that take no part in the Cache / Clock / fork! operations
aside == <<gen, codec, range>>

standalone == <<table, index, inserted, sheet, aside>>

\* op: the operation; result: "Ok" or the error's outer tag; variant: the
\* inner tag of a fork error ("Origin" / "Sub", failed = which subscriber);
\* *Calls: calls the operation made to the origin / wrapped table / mirror.
NoOp == [op |-> "none", result |-> "Ok", variant |-> "none", failed |-> 0,
         called |-> 0, versionCalls |-> 0, innerCalls |-> 0,
         fetchCalls |-> 0, clearCalls |-> 0, extendCalls |-> 0,
         mirrorWrite |-> "none", originWrite |-> "none",
         gotVersion |-> FALSE, newVersion |-> 0, wasDirty |-> FALSE,
         sameVersion |-> FALSE, fetched |-> <<>>, out |-> <<>>,
         from_row |-> 0, entries |-> <<>>, before |-> 0, key |-> 0,
         found |-> <<>>, hash |-> 0, fetchedBetween |-> FALSE,
         afterWrite |-> FALSE]

Op(name) == [NoOp EXCEPT !.op = name]

\* Which call of an operation returns Err: 0 = none, k = the k-th call the
\* operation would make. In the quiet phase every call succeeds.
Failing(n) == IF phase = "quiet" THEN {0} ELSE 0..n

\* ------------------------------------------------------------- Clock
\* fault variant: the window is one tick short
Clock_expired_early(el) == el >= TTL

\* fault variant: the window is one tick long
Clock_expired_late(el) == el > TTL + 1

\* `now - self.last_cache_update > self.ttl`
Clock_expired(el) == el > TTL

\* `self.inner.version().await?` returned Err: the function returns before
\* `self.last_cache_update = now`, so the elapsed time is what it was
Clock_elapsed_after_error(el) == el

\* Clock::version. `ok` is the outcome of the wrapped call if one is made.
Clock_version(ok) ==
    IF Clock_expired(elapsed)
    THEN IF ok
         THEN [ok |-> TRUE, value |-> origin.version,
               cached_version |-> origin.version, elapsed |-> 0,
               innerCalls |-> 1, drawn |-> 0]
         ELSE [ok |-> FALSE, value |-> 0,
               cached_version |-> cached_version,
               elapsed |-> Clock_elapsed_after_error(elapsed),
               innerCalls |-> 1, drawn |-> 0]
    ELSE [ok |-> TRUE, value |-> cached_version,
          cached_version |-> cached_version, elapsed |-> elapsed,
          innerCalls |-> 0, drawn |-> 0]

\* fault variant of bumped: the Sheet keeps the version it has
bumped_not(s, v) == s

\* Sheet::fetch_version without a meta region: self.version = next_version()
\* (v is the drawn value); no request is made, the call cannot fail
bumped(s, v) == [s EXCEPT !.version = v]

\* the Cache's origin is a Sheet that has no meta region
Bare == DOMAIN sheet # {} /\ ~sheet.has_meta

\* self.origin.version() as the Cache sees it: through the Clock when the
\* origin is Clock<..>, the Sheet's when the origin is a Sheet without a
\* meta region, else the table's own version().
\* drawn: how many values the call took from next_version()
Origin_version(ok) ==
    IF Bare
    THEN [ok |-> TRUE, value |-> bumped(sheet, VERSION).version,
          cached_version |-> cached_version, elapsed |-> elapsed,
          innerCalls |-> 1, drawn |-> 1]
    ELSE IF clocked
    THEN Clock_version(ok)
    ELSE [ok |-> ok, value |-> IF ok THEN origin.version ELSE 0,
          cached_version |-> cached_version, elapsed |-> elapsed,
          innerCalls |-> 1, drawn |-> 0]

\* bookkeeping of what the wrapped component told the Clock, and when
ReportAfter(ver) ==
    IF clocked /\ ver.innerCalls = 1 /\ ver.ok THEN <<ver.value, 0>> ELSE report

SinceInnerAfter(ver) ==
    IF clocked /\ ver.innerCalls = 1 THEN 0 ELSE sinceInner

\* ------------------------------------------------------------- Cache
\* fault variant: the mirror's Err flattened into the origin's tag
try_cache_as_origin == "Origin"

\* try_cache! / try_origin!: the tag an Err of the mirror / origin gets
try_cache  == "Cache"
try_origin == "Origin"

\* fault variant: the version test dropped
VersionChanged_always(last, new) == TRUE

\* `if self.last_origin_version != new_version`
VersionChanged(last, new) == last # new

\* fault variant: the mirror is patched, not cleared and reloaded
Rebuild_without_clear(mirror, entries, v) == _extend(mirror, entries, v)

\* cache.clear() then cache.extend_owned(origin_entries)
Rebuild(mirror, entries, v) == _extend(clear(mirror), entries, v)

\* Cache::refresh (and the refresh half of Cache::fetch).
\* vOk, fOk, cOk, eOk: outcomes of origin.version(), origin.fetch(),
\* cache.clear(), cache.extend_owned() if the call is made.
RefreshBody(name, vOk, fOk, cOk, eOk) ==
    LET ver     == Origin_version(vOk)
        changed == ver.ok /\ VersionChanged(last_origin_version, ver.value)
        fetched == read(origin)
        rebuilt == changed /\ fOk /\ cOk /\ eOk
        result  == IF ~ver.ok THEN try_origin
                   ELSE IF ~changed THEN "Ok"
                   ELSE IF ~fOk THEN try_origin
                   ELSE IF ~cOk \/ ~eOk THEN try_cache
                   ELSE "Ok"
        mirror  == IF rebuilt THEN Rebuild(cache, fetched, VERSION + ver.drawn)
                   ELSE IF changed /\ fOk /\ cOk THEN clear(cache)
                   ELSE cache
    IN  /\ (rebuilt \/ ver.drawn = 1)
            => VERSION + ver.drawn + (IF rebuilt THEN 1 ELSE 0) <= MaxVersion
        /\ cached_version' = ver.cached_version
        /\ elapsed' = ver.elapsed
        /\ report' = ReportAfter(ver)
        /\ sinceInner' = SinceInnerAfter(ver)
        /\ last_origin_version' =
              IF changed THEN ver.value ELSE last_origin_version
        /\ cache' = mirror
        /\ VERSION' = VERSION + ver.drawn + (IF rebuilt THEN 1 ELSE 0)
        /\ sheet' = IF ver.drawn = 1 THEN bumped(sheet, VERSION) ELSE sheet
        /\ dirty' = (dirty /\ ~ver.ok)
        /\ observed' = IF ver.ok THEN ver.value ELSE observed
        /\ lastOp' = [Op(name) EXCEPT
              !.result       = result,
              !.versionCalls = 1,
              !.innerCalls   = ver.innerCalls,
              !.fetchCalls   = IF changed THEN 1 ELSE 0,
              !.clearCalls   = IF changed /\ fOk THEN 1 ELSE 0,
              !.extendCalls  = IF changed /\ fOk /\ cOk THEN 1 ELSE 0,
              !.newVersion   = IF ver.ok THEN ver.value ELSE 0,
              !.gotVersion   = ver.ok,
              !.wasDirty     = dirty,
              !.sameVersion  = (ver.ok /\ ver.value = observed),
              !.fetched      = IF changed /\ fOk THEN fetched ELSE <<>>,
              !.out          = IF name = "fetch" /\ result = "Ok"
                               THEN read(mirror) ELSE <<>>]
        /\ UNCHANGED <<origin, clocked, initial_version, phase, fork, table,
                       index, inserted, aside>>

CacheRefresh ==
    \E f \in Failing(4) :
        RefreshBody("refresh", f # 1, f # 2, f # 3, f # 4)

\* Cache::fetch: self.refresh().await?; Ok(self.cache.read())
CacheFetch ==
    \E f \in Failing(4) :
        RefreshBody("fetch", f # 1, f # 2, f # 3, f # 4)

\* fault variant: a read that refreshes first
CacheRead_through == RefreshBody("read", TRUE, TRUE, TRUE, TRUE)

\* Cache::read: Ok(try_cache!(self.cache.read()))
CacheRead ==
    /\ lastOp' = [Op("read") EXCEPT !.out = read(cache)]
    /\ UNCHANGED <<VERSION, origin, cache, last_origin_version, clocked,
                   cached_version, elapsed, initial_version, report,
                   sinceInner, dirty, observed, phase, fork, standalone>>

\* fault variant: the version the Cache last took from its origin
version_of_origin(mirror, last) == last

\* TableVersion for Cache: self.cache.version().await.map_err(Error::Cache)
\* (the mirror's version; the origin is not asked)
version_of(mirror, last) == mirror.version

CacheVersion ==
    /\ lastOp' = [Op("version") EXCEPT
          !.newVersion = version_of(cache, last_origin_version),
          !.gotVersion = TRUE]
    /\ UNCHANGED <<VERSION, origin, cache, last_origin_version, clocked,
                   cached_version, elapsed, initial_version, report,
                   sinceInner, dirty, observed, phase, fork, standalone>>

\* fault variant: the mark leaves last_origin_version as it is
mark_as_dirty_noop(last, v) == last

\* Cache::mark_as_dirty: self.last_origin_version = next_version()
mark_as_dirty(last, v) == v

CacheMarkAsDirty ==
    /\ phase = "active"
    /\ VERSION < MaxVersion
    /\ last_origin_version' = mark_as_dirty(last_origin_version, VERSION)
    /\ VERSION' = VERSION + 1
    /\ dirty' = TRUE
    /\ lastOp' = Op("mark_as_dirty")
    /\ UNCHANGED <<origin, cache, clocked, cached_version, elapsed,
                   initial_version, report, sinceInner, observed, phase,
                   fork, standalone>>

\* the table after extend(entries) / update(from_row, entries)
written(name, t, from_row, entries, v) ==
    IF name = "extend" THEN _extend(t, entries, v)
                       ELSE _update(t, from_row, entries, v)

\* Cache::extend / Cache::update:
\*   try_cache!(self.cache.<write>(..)); Ok(try_origin!(self.origin.<write>(..)))
\* mOk, oOk: outcomes of the mirror's and the origin's call if it is made.
\* (Clock<I>::extend / update pass through to the wrapped table.)
WriteBody(name, from_row, entries, mOk, oOk) ==
    LET mirror == IF mOk THEN written(name, cache, from_row, entries, VERSION)
                  ELSE cache
        source == IF mOk /\ oOk
                  THEN written(name, origin, from_row, entries, VERSION + 1)
                  ELSE origin
    IN  /\ phase = "active"
        /\ VERSION + 2 <= MaxVersion
        /\ Len(written(name, cache, from_row, entries, 0).rows) <= MaxRows
        /\ Len(written(name, origin, from_row, entries, 0).rows) <= MaxRows
        /\ cache' = mirror
        /\ origin' = source
        /\ VERSION' = VERSION + (IF mOk THEN 1 ELSE 0)
                              + (IF mOk /\ oOk THEN 1 ELSE 0)
        /\ lastOp' = [Op(name) EXCEPT
              !.result      = IF ~mOk THEN try_cache
                              ELSE IF ~oOk THEN try_origin ELSE "Ok",
              !.mirrorWrite = IF mOk THEN "ok" ELSE "err",
              !.originWrite = IF ~mOk THEN "none"
                              ELSE IF oOk THEN "ok" ELSE "err",
              !.from_row    = from_row,
              !.entries     = entries]
        /\ UNCHANGED <<last_origin_version, clocked, cached_version, elapsed,
                       initial_version, report, sinceInner, dirty, observed,
                       phase, fork, standalone>>

CacheExtend ==
    \E entries \in Inputs, f \in Failing(2) :
        WriteBody("extend", 0, entries, f # 1, f # 2)

CacheUpdate ==
    \E from_row \in 0..(MaxRows - 1), entries \in Inputs, f \in Failing(2) :
        WriteBody("update", from_row, entries, f # 1, f # 2)

\* time passes (Utc::now() advances by one tick)
Older(d) == IF d < 0 THEN d ELSE Min(d + 1, AgeCap)

Tick ==
    /\ clocked
    /\ elapsed' = Older(elapsed)
    /\ sinceInner' = Older(sinceInner)
    /\ report' = IF report = <<>> THEN report ELSE <<report[1], Older(report[2])>>
    /\ lastOp' = Op("tick")
    /\ UNCHANGED <<VERSION, origin, cache, last_origin_version, clocked,
                   cached_version, initial_version, dirty, observed, phase,
                   fork, standalone>>

\* from here on nobody writes and every call succeeds
Quiesce ==
    /\ phase = "active"
    /\ VERSION + 2 <= MaxVersion
    /\ phase' = "quiet"
    /\ lastOp' = Op("quiesce")
    /\ UNCHANGED <<VERSION, origin, cache, last_origin_version, clocked,
                   cached_version, elapsed, initial_version, report,
                   sinceInner, dirty, observed, fork, standalone>>

\* no task draws versions, no row is encoded or decoded, no range parsed
NoAside ==
    /\ gen = <<>>
    /\ codec = <<>>
    /\ range = <<>>

\* no standalone table, Index or Sheet was built
NoStandalone ==
    /\ table = InMemTable(<<>>, 0)
    /\ index = <<>>
    /\ inserted = {}
    /\ sheet = <<>>
    /\ NoAside

NoFork == [origin |-> InMemTable(<<>>, 0), subs |-> <<>>]

\* let origin = InMemTable::new(rows)          -- draws version 0
\* let origin = Clock::new(origin, ttl)        -- when clocked, draws 1
\* Cache::new(origin, [].into())               -- mirror draws, then the Cache
Init ==
    /\ clocked \in BOOLEAN
    /\ \E rows \in Inputs : origin = InMemTable(rows, 0)
    /\ cached_version = (IF clocked THEN 1 ELSE 0)
    /\ initial_version = cached_version
    /\ elapsed = 0
    /\ cache = InMemTable(<<>>, IF clocked THEN 2 ELSE 1)
    /\ last_origin_version = cache.version + 1
    /\ VERSION = cache.version + 2
    /\ report = <<>>
    /\ sinceInner = -1
    /\ dirty = FALSE
    /\ observed = -1
    /\ phase = "active"
    /\ fork = NoFork
    /\ NoStandalone
    /\ lastOp = NoOp

Next ==
    \/ CacheRefresh
    \/ CacheFetch
    \/ CacheRead
    \/ CacheVersion
    \/ CacheMarkAsDirty
    \/ CacheExtend
    \/ CacheUpdate
    \/ Tick
    \/ Quiesce

Spec == Init /\ [][Next]_vars

\* refresh() keeps being called and time keeps passing
FairSpec == Spec /\ WF_vars(CacheRefresh) /\ WF_vars(Tick)

\* The ways a Cache over an in-memory mirror can be put together. A table
\* comes from InMemTable::new / from (draws its version) or from
\* InMemTable::default() (version 0, nothing drawn; `rows` is a pub field and
\* can be filled afterwards); `Clock::new` draws after the table it wraps,
\* Cache::new draws last; the mirror is built before or after the origin.
\* An origin at version 0 that draws nothing is also what a Sheet with a
\* meta region is after Sheet::new while the meta cell's hash is "".
InitNew ==
    /\ \E originDraws, mirrorDraws, mirrorFirst \in BOOLEAN, rows \in Inputs :
          LET d(b) == IF b THEN 1 ELSE 0
              o    == IF mirrorFirst THEN d(mirrorDraws) ELSE 0
              k    == o + d(originDraws)
              m    == IF mirrorFirst THEN 0 ELSE k + d(clocked)
              last == d(originDraws) + d(clocked) + d(mirrorDraws)
          IN  /\ clocked \in BOOLEAN
              /\ origin = InMemTable(rows, IF originDraws THEN o ELSE 0)
              /\ cached_version = (IF clocked THEN k ELSE 0)
              /\ cache = InMemTable(<<>>, IF mirrorDraws THEN m ELSE 0)
              /\ last_origin_version = last
              /\ VERSION = last + 1
    /\ initial_version = cached_version
    /\ elapsed = 0
    /\ report = <<>>
    /\ sinceInner = -1
    /\ dirty = FALSE
    /\ observed = -1
    /\ phase = "active"
    /\ fork = NoFork
    /\ NoStandalone
    /\ lastOp = NoOp

SpecNew == InitNew /\ [][Next]_vars

\* ------------------------------------------------------------- fork!
\* The generated struct binds one origin to NumSubs subscribers; the macro
\* repetition $( self.$sub_name.<call>(..).await.map_err(..)?; )+ calls them
\* one after the other in declared order and returns at the first Err.
\* failAt: the subscriber whose call returns Err (0: none).
\* fault variant of fan_out: a failing subscriber is skipped, the later ones
\* are still written
RECURSIVE fan_out_keep_going(_, _, _, _, _, _, _)
fan_out_keep_going(name, subs, k, failAt, from_row, entries, v) ==
    IF k > Len(subs)
    THEN [subs |-> subs, failed |-> IF failAt \in 1..Len(subs) THEN failAt ELSE 0,
          called |-> k - 1, VERSION |-> v]
    ELSE IF k = failAt
    THEN fan_out_keep_going(name, subs, k + 1, failAt, from_row, entries, v)
    ELSE fan_out_keep_going(name,
             [subs EXCEPT ![k] = written(name, subs[k], from_row, entries, v)],
             k + 1, failAt, from_row, entries, v + 1)

\* the subscribers k.. written in declared order up to the first Err
RECURSIVE fan_out(_, _, _, _, _, _, _)
fan_out(name, subs, k, failAt, from_row, entries, v) ==
    IF k > Len(subs)
    THEN [subs |-> subs, failed |-> 0, called |-> k - 1, VERSION |-> v]
    ELSE IF k = failAt
    THEN [subs |-> subs, failed |-> k, called |-> k, VERSION |-> v]
    ELSE fan_out(name,
             [subs EXCEPT ![k] = written(name, subs[k], from_row, entries, v)],
             k + 1, failAt, from_row, entries, v + 1)

\* fault variant of clear_all: no subscriber is cleared before the reload
clear_all_none(subs, k, failAt) ==
    [subs |-> subs, failed |-> IF failAt \in k..Len(subs) THEN failAt ELSE 0]

\* fault variant of clear_all: a failing subscriber is skipped, the later
\* ones are still cleared
RECURSIVE clear_all_keep_going(_, _, _)
clear_all_keep_going(subs, k, failAt) ==
    IF k > Len(subs)
    THEN [subs |-> subs, failed |-> IF failAt \in 1..Len(subs) THEN failAt ELSE 0]
    ELSE IF k = failAt
    THEN clear_all_keep_going(subs, k + 1, failAt)
    ELSE clear_all_keep_going([subs EXCEPT ![k] = clear(subs[k])], k + 1, failAt)

\* $( self.$sub_name.clear().await.map_err(..)?; )+
RECURSIVE clear_all(_, _, _)
clear_all(subs, k, failAt) ==
    IF k > Len(subs)
    THEN [subs |-> subs, failed |-> 0]
    ELSE IF k = failAt
    THEN [subs |-> subs, failed |-> k]
    ELSE clear_all([subs EXCEPT ![k] = clear(subs[k])], k + 1, failAt)

ForkFits(name, from_row, entries) ==
    /\ Len(written(name, fork.origin, from_row, entries, 0).rows) <= MaxRows
    /\ \A k \in 1..Len(fork.subs) :
          Len(written(name, fork.subs[k], from_row, entries, 0).rows)
              <= MaxRows

ForkUnchanged ==
    UNCHANGED <<origin, cache, last_origin_version, clocked, cached_version,
                elapsed, initial_version, report, sinceInner, dirty, observed,
                phase, standalone>>

\* fault variant of ForkWriteBody: the subscribers are written before the
\* origin's result is looked at, so an origin Err still reaches them
ForkWriteBody_subs_first(name, from_row, entries, f) ==
    LET fo == fan_out(name, fork.subs, 1, IF f = 1 THEN 0 ELSE f - 1,
                      from_row, entries, VERSION + 1)
    IN  /\ VERSION + NumSubs + 1 <= MaxForkVersion
        /\ ForkFits(name, from_row, entries)
        /\ fork' = [origin |-> IF f = 1 THEN fork.origin
                               ELSE written(name, fork.origin, from_row,
                                            entries, VERSION),
                    subs   |-> fo.subs]
        /\ VERSION' = fo.VERSION
        /\ lastOp' = [Op(IF name = "extend" THEN "fork_extend" ELSE "fork_update")
              EXCEPT
              !.result      = IF f = 1 \/ fo.failed # 0
                              THEN (IF name = "extend" THEN "Extend" ELSE "Update")
                              ELSE "Ok",
              !.variant     = IF f = 1 THEN "Origin"
                              ELSE IF fo.failed # 0 THEN "Sub" ELSE "none",
              !.failed      = IF f = 1 THEN 0 ELSE fo.failed,
              !.called      = fo.called,
              !.originWrite = IF f = 1 THEN "err" ELSE "ok",
              !.from_row    = from_row,
              !.entries     = entries]
        /\ ForkUnchanged

\* fork! TableExtend::extend / TableUpdate::update.
\* f: which call returns Err (0: none, 1: the origin's, k + 1: subscriber k's)
ForkWriteBody(name, from_row, entries, f) ==
    LET fo == fan_out(name, fork.subs, 1, f - 1, from_row, entries, VERSION + 1)
    IN  /\ VERSION + NumSubs + 1 <= MaxForkVersion
        /\ ForkFits(name, from_row, entries)
        /\ fork' = IF f = 1 THEN fork
                   ELSE [origin |-> written(name, fork.origin, from_row,
                                            entries, VERSION),
                         subs   |-> fo.subs]
        /\ VERSION' = IF f = 1 THEN VERSION ELSE fo.VERSION
        /\ lastOp' = [Op(IF name = "extend" THEN "fork_extend" ELSE "fork_update")
              EXCEPT
              !.result      = IF f = 1 \/ fo.failed # 0
                              THEN (IF name = "extend" THEN "Extend" ELSE "Update")
                              ELSE "Ok",
              !.variant     = IF f = 1 THEN "Origin"
                              ELSE IF fo.failed # 0 THEN "Sub" ELSE "none",
              !.failed      = IF f = 1 THEN 0 ELSE fo.failed,
              !.called      = IF f = 1 THEN 0 ELSE fo.called,
              !.originWrite = IF f = 1 THEN "err" ELSE "ok",
              !.from_row    = from_row,
              !.entries     = entries]
        /\ ForkUnchanged

ForkExtend ==
    \E entries \in Inputs, f \in 0..(NumSubs + 1) :
        ForkWriteBody("extend", 0, entries, f)

ForkUpdate ==
    \E from_row \in 0..(MaxRows - 1), entries \in Inputs,
       f \in 0..(NumSubs + 1) :
        ForkWriteBody("update", from_row, entries, f)

\* fork! TableFetch::fetch: origin.fetch()?, then every subscriber's clear()?,
\* then every subscriber's extend(entries.clone())?; Ok(entries).
\* f: which call returns Err (0: none, 1: the origin's fetch,
\*    1 + k: clear of subscriber k, 1 + NumSubs + k: extend of subscriber k)
ForkFetch ==
    \E f \in 0..(2 * NumSubs + 1) :
        LET entries == read(fork.origin)
            cl == clear_all(fork.subs, 1, f - 1)
            fo == fan_out("extend", cl.subs, 1, f - 1 - NumSubs, 0, entries,
                          VERSION)
            filled == f # 1 /\ cl.failed = 0
        IN  /\ VERSION + NumSubs <= MaxForkVersion
            /\ fork' = [origin |-> fork.origin,
                        subs   |-> IF f = 1 THEN fork.subs
                                   ELSE IF filled THEN fo.subs ELSE cl.subs]
            /\ VERSION' = IF filled THEN fo.VERSION ELSE VERSION
            /\ lastOp' = [Op("fork_fetch") EXCEPT
                  !.result     = IF f = 1 THEN "Fetch"
                                 ELSE IF cl.failed # 0 THEN "Clear"
                                 ELSE IF fo.failed # 0 THEN "Extend" ELSE "Ok",
                  !.variant    = IF f = 1 THEN "Origin"
                                 ELSE IF cl.failed # 0 \/ fo.failed # 0
                                 THEN "Sub" ELSE "none",
                  !.failed     = IF f = 1 THEN 0
                                 ELSE IF cl.failed # 0 THEN cl.failed
                                 ELSE fo.failed,
                  !.called     = IF filled THEN fo.called ELSE 0,
                  !.fetchCalls = 1,
                  !.fetched    = IF f = 1 THEN <<>> ELSE entries,
                  !.out        = IF f = 0 THEN entries ELSE <<>>]
            /\ ForkUnchanged

\* $fork_name::new(origin, subscribers..): the tables are built one after
\* the other, the subscribers start empty
InitFork ==
    /\ fork = [origin |-> InMemTable(<<>>, 0),
               subs   |-> [k \in 1..NumSubs |-> InMemTable(<<>>, k)]]
    /\ VERSION = NumSubs + 1
    /\ origin = InMemTable(<<>>, 0)
    /\ cache = InMemTable(<<>>, 0)
    /\ last_origin_version = 0
    /\ clocked = FALSE
    /\ cached_version = 0
    /\ initial_version = 0
    /\ elapsed = 0
    /\ report = <<>>
    /\ sinceInner = -1
    /\ dirty = FALSE
    /\ observed = -1
    /\ phase = "active"
    /\ NoStandalone
    /\ lastOp = NoOp

NextFork ==
    \/ ForkExtend
    \/ ForkUpdate
    \/ ForkFetch

SpecFork == InitFork /\ [][NextFork]_vars

\* ------------------------------------------- the in-memory table alone
\* An InMemTable called directly: its calls are Infallible. Other tables of
\* the process may have drawn from VERSION before it was built.
MemRows == MaxRows + 2              \* longest standalone table (slots)

cacheVars == <<origin, cache, last_origin_version, clocked, cached_version,
               elapsed, initial_version, report, sinceInner, dirty,
               observed, phase>>

\* no Cache / Clock was built
NoCache ==
    /\ origin = InMemTable(<<>>, 0)
    /\ cache = InMemTable(<<>>, 0)
    /\ last_origin_version = 0
    /\ clocked = FALSE
    /\ cached_version = 0
    /\ initial_version = 0
    /\ elapsed = 0
    /\ report = <<>>
    /\ sinceInner = -1
    /\ dirty = FALSE
    /\ observed = -1
    /\ phase = "active"

MemUnchanged == UNCHANGED <<cacheVars, fork, index, inserted, sheet, aside>>

\* extend / extend_owned: both are _extend on the (cloned) entries
MemExtend ==
    \E entries \in Inputs, name \in {"mem_extend", "mem_extend_owned"} :
        /\ VERSION < MaxVersion
        /\ Len(table.rows) + Len(entries) <= MemRows
        /\ table' = _extend(table, entries, VERSION)
        /\ VERSION' = VERSION + 1
        /\ lastOp' = [Op(name) EXCEPT !.entries = entries,
                                      !.before = table.version]
        /\ MemUnchanged

\* update / update_owned: both are _update on the (cloned) entries
MemUpdate ==
    \E from_row \in 0..(MemRows - 1), entries \in Inputs,
       name \in {"mem_update", "mem_update_owned"} :
        /\ VERSION < MaxVersion
        /\ from_row + Len(entries) <= MemRows
        /\ table' = _update(table, from_row, entries, VERSION)
        /\ VERSION' = VERSION + 1
        /\ lastOp' = [Op(name) EXCEPT !.from_row = from_row,
                                      !.entries = entries,
                                      !.before = table.version]
        /\ MemUnchanged

MemClear ==
    /\ table' = clear(table)
    /\ lastOp' = [Op("mem_clear") EXCEPT !.before = table.version]
    /\ UNCHANGED VERSION
    /\ MemUnchanged

\* fault variant of MemRead: reading stamps the table with a new version
MemRead_touch ==
    /\ VERSION < MaxVersion
    /\ table' = [table EXCEPT !.version = VERSION]
    /\ VERSION' = VERSION + 1
    /\ lastOp' = [Op("mem_read") EXCEPT !.out = read(table),
                                        !.before = table.version]
    /\ MemUnchanged

\* TableRead::read (&self)
MemRead ==
    /\ lastOp' = [Op("mem_read") EXCEPT !.out = read(table),
                                        !.before = table.version]
    /\ UNCHANGED <<table, VERSION>>
    /\ MemUnchanged

\* TableFetch::fetch: Ok(self.read()?..collect())
MemFetch ==
    /\ lastOp' = [Op("mem_fetch") EXCEPT !.out = read(table),
                                         !.before = table.version]
    /\ UNCHANGED <<table, VERSION>>
    /\ MemUnchanged

\* TableVersion::version: Ok(self.version)
MemVersion ==
    /\ lastOp' = [Op("mem_version") EXCEPT !.gotVersion = TRUE,
                                           !.newVersion = table.version,
                                           !.before = table.version]
    /\ UNCHANGED <<table, VERSION>>
    /\ MemUnchanged

\* InMemTable::new(rows): every row present, version = next_version()
InitMem ==
    /\ \E rows \in Inputs, v \in 0..1 :
          /\ table = InMemTable(rows, v)
          /\ VERSION = v + 1
    /\ index = <<>>
    /\ inserted = {}
    /\ sheet = <<>>
    /\ fork = NoFork
    /\ NoAside
    /\ NoCache
    /\ lastOp = NoOp

NextMem ==
    \/ MemExtend
    \/ MemUpdate
    \/ MemClear
    \/ MemRead
    \/ MemFetch
    \/ MemVersion

SpecMem == InitMem /\ [][NextMem]_vars

\* ----------------------------------------------------- secondary Index
\* Index { map: HashMap<K, Vec<(usize, V)>>, get_key: fn(usize, &E) -> K },
\* here with V = E. The map is a function whose domain is the set of keys
\* present; a pair is <<row, value>>. Every call is Infallible.
IdxE     == 1..(NumEntries + 2)     \* records handed to the Index
IdxLen   == MaxLen + 1              \* longest batch
MaxPairs == MaxRows + 2             \* most pairs held by the map

IdxInputs == UNION {[1..k -> IdxE] : k \in 0..IdxLen}

\* an Option as a sequence: None is <<>>, Some(x) is <<x>>
Nothing == <<>>
Some(x) == <<x>>

\* the key function given to Index::new; two records share each key
get_key(row, entry) == (entry + 1) \div 2

Keys == {0} \cup {get_key(0, e) : e \in IdxE}

EmptyMap == [k \in {} |-> <<>>]

\* self.map.entry(key).or_insert_with(Vec::new).push(pair)
push(map, key, pair) ==
    [k \in DOMAIN map \cup {key} |->
        IF k = key
        THEN (IF k \in DOMAIN map THEN Append(map[k], pair) ELSE <<pair>>)
        ELSE map[k]]

\* _extend: for (row, entry) in entries.into_iter().enumerate()
RECURSIVE Index_extend(_, _, _)
Index_extend(map, entries, i) ==
    IF i > Len(entries) THEN map
    ELSE Index_extend(push(map, get_key(i - 1, entries[i]),
                           <<i - 1, entries[i]>>),
                      entries, i + 1)

\* vec.iter_mut().find(|(i, _)| *i == row): the first pair with that row
FirstWithRow(vec, row) ==
    IF \E j \in 1..Len(vec) : vec[j][1] = row
    THEN CHOOSE j \in 1..Len(vec) :
            /\ vec[j][1] = row
            /\ \A h \in 1..(j - 1) : vec[h][1] # row
    ELSE 0

\* one step of _update: replace the value of the found pair, else push
put(map, key, row, entry) ==
    LET j == IF key \in DOMAIN map THEN FirstWithRow(map[key], row) ELSE 0
    IN  IF j # 0
        THEN [map EXCEPT ![key] = [@ EXCEPT ![j] = <<row, entry>>]]
        ELSE push(map, key, <<row, entry>>)

\* _update: for (mut row, entry) in ..enumerate() { row += from_row; .. }
RECURSIVE Index_update(_, _, _, _)
Index_update(map, from_row, entries, i) ==
    IF i > Len(entries) THEN map
    ELSE LET row == from_row + i - 1
         IN  Index_update(put(map, get_key(row, entries[i]), row, entries[i]),
                          from_row, entries, i + 1)

\* group: self.map.get(key)
group(map, key) == IF key \in DOMAIN map THEN Some(map[key]) ELSE Nothing

\* fault variant of get_with_row: the pair inserted last
get_with_row_last(map, key) ==
    IF key \in DOMAIN map /\ map[key] # <<>>
    THEN Some(map[key][Len(map[key])]) ELSE Nothing

\* get_with_row: self.map.get(key).and_then(|v| v.first())
get_with_row(map, key) ==
    IF key \in DOMAIN map /\ map[key] # <<>>
    THEN Some(map[key][1]) ELSE Nothing

\* get: self.get_with_row(key).map(|(_, v)| v)
get(map, key) ==
    LET p == get_with_row(map, key)
    IN  IF p = Nothing THEN Nothing ELSE Some(p[1][2])

Pairs(map) ==
    LET RECURSIVE Sum(_)
        Sum(S) == IF S = {} THEN 0
                  ELSE LET k == CHOOSE k \in S : TRUE
                       IN  Len(map[k]) + Sum(S \ {k})
    IN  Sum(DOMAIN map)

KeysOf(entries, from_row) ==
    {get_key(from_row + i - 1, entries[i]) : i \in 1..Len(entries)}

IndexUnchanged == UNCHANGED <<cacheVars, fork, table, sheet, aside, VERSION>>

\* TableExtend::extend / extend_owned
IndexExtend ==
    \E entries \in IdxInputs :
        /\ Pairs(index) + Len(entries) <= MaxPairs
        /\ index' = Index_extend(index, entries, 1)
        /\ inserted' = inserted \cup KeysOf(entries, 0)
        /\ lastOp' = [Op("index_extend") EXCEPT !.entries = entries]
        /\ IndexUnchanged

\* TableUpdate::update / update_owned
IndexUpdate ==
    \E from_row \in 0..MaxRows, entries \in IdxInputs :
        /\ Pairs(index) + Len(entries) <= MaxPairs
        /\ index' = Index_update(index, from_row, entries, 1)
        /\ inserted' = inserted \cup KeysOf(entries, from_row)
        /\ lastOp' = [Op("index_update") EXCEPT !.from_row = from_row,
                                                !.entries = entries]
        /\ IndexUnchanged

\* TableClear::clear: self.map.clear()
IndexClear ==
    /\ index' = EmptyMap
    /\ inserted' = {}
    /\ lastOp' = Op("index_clear")
    /\ IndexUnchanged

\* group(key), get_with_row(key) and get(key) on the same map
IndexLookup ==
    \E key \in Keys :
        /\ lastOp' = [Op("index_lookup") EXCEPT
               !.key   = key,
               !.found = [group        |-> group(index, key),
                          get_with_row |-> get_with_row(index, key),
                          get          |-> get(index, key)]]
        /\ UNCHANGED <<index, inserted>>
        /\ IndexUnchanged

\* Index::new(get_key): map: HashMap::new()
InitIndex ==
    /\ index = EmptyMap
    /\ inserted = {}
    /\ table = InMemTable(<<>>, 0)
    /\ sheet = <<>>
    /\ VERSION = 0
    /\ fork = NoFork
    /\ NoAside
    /\ NoCache
    /\ lastOp = NoOp

NextIndex ==
    \/ IndexExtend
    \/ IndexUpdate
    \/ IndexClear
    \/ IndexLookup

SpecIndex == InitIndex /\ [][NextIndex]_vars

\* ------------------------------------- fork!: a table and its Index
\* fork!(UsersTable { users: InMemTable, by_name: Index }): table is the
\* origin, index the one subscriber. Every call of either is Infallible.
\* fetch: origin.fetch(), by_name.clear(), by_name.extend(entries.clone())
UsersFetch ==
    LET entries == read(table)
    IN  /\ index' = Index_extend(EmptyMap, entries, 1)
        /\ lastOp' = [Op("users_fetch") EXCEPT !.out = entries]
        /\ UNCHANGED <<table, VERSION>>
        /\ UNCHANGED <<cacheVars, fork, inserted, sheet, aside>>

\* extend: origin.extend(entries.clone()), by_name.extend(entries.clone())
UsersExtend ==
    \E entries \in IdxInputs :
        /\ VERSION < MaxVersion
        /\ Len(table.rows) + Len(entries) <= MaxRows + 1
        /\ Pairs(index) + Len(entries) <= MaxPairs
        /\ table' = _extend(table, entries, VERSION)
        /\ VERSION' = VERSION + 1
        /\ index' = Index_extend(index, entries, 1)
        /\ lastOp' = [Op("users_extend") EXCEPT !.entries = entries]
        /\ UNCHANGED <<cacheVars, fork, inserted, sheet, aside>>

\* update: origin.update(from_row, ..), by_name.update(from_row, ..)
UsersUpdate ==
    \E from_row \in 0..MaxRows, entries \in IdxInputs :
        /\ VERSION < MaxVersion
        /\ from_row + Len(entries) <= MaxRows + 1
        /\ Pairs(index) + Len(entries) <= MaxPairs
        /\ table' = _update(table, from_row, entries, VERSION)
        /\ VERSION' = VERSION + 1
        /\ index' = Index_update(index, from_row, entries, 1)
        /\ lastOp' = [Op("users_update") EXCEPT !.from_row = from_row,
                                                !.entries = entries]
        /\ UNCHANGED <<cacheVars, fork, inserted, sheet, aside>>

\* UsersTable::new(InMemTable::new([]), Index::new(get_key))
InitUsers ==
    /\ table = InMemTable(<<>>, 0)
    /\ VERSION = 1
    /\ index = EmptyMap
    /\ inserted = {}
    /\ sheet = <<>>
    /\ fork = NoFork
    /\ NoAside
    /\ NoCache
    /\ lastOp = NoOp

NextUsers ==
    \/ UsersFetch
    \/ UsersExtend
    \/ UsersUpdate

SpecUsers == InitUsers /\ [][NextUsers]_vars

\* ------------------------------------------------- Sheet: the version
\* Sheet { version: u64, version_hash: String, args.meta_range, .. } and the
\* hash cell of the spreadsheet's meta region (meta). A hash is a number,
\* 0 is the empty string (also what an empty meta region reads as).
\* seen: the hash read and the version returned by the last successful
\* version(), <<>> before the first; fetched: a fetch() happened since.
\* rows: the data region, a row that does not decode as a record is None;
\* tasks: the detached write tasks that have not finished; trail: the
\* caller's last calls when they were version() or version(), write.
Hashes == 0..(NumEntries + 1)

\* r_start: args.data_range.r_start, the zero-based sheet row of data row 0
NewSheet(has_meta, meta, rows) ==
    [version |-> 0, version_hash |-> 0, has_meta |-> has_meta,
     meta |-> meta, seen |-> <<>>, fetched |-> FALSE,
     rows |-> rows, tasks |-> <<>>, trail |-> <<>>, r_start |-> 1]

SheetUnchanged == UNCHANGED <<cacheVars, fork, table, index, inserted, aside>>

\* fault variant of hash_differs: every version() call draws a new version
hash_always_differs(meta_hash, version_hash) == TRUE

\* `if meta_hash != self.version_hash`
hash_differs(meta_hash, version_hash) == meta_hash # version_hash

\* fetch_version with a meta region, after the hash was read and parsed:
\* v is the value next_version() would hand out
noted(s, meta_hash, v) ==
    IF hash_differs(meta_hash, s.version_hash)
    THEN [s EXCEPT !.version = v, !.version_hash = meta_hash]
    ELSE s

\* TableVersion::version: self.fetch_version().await?; Ok(self.version).
\* f: which step returns Err (0: none, 1: values_get, Error::Sheets,
\*    2: MetaEntry::deserialize, Error::Serde)
SheetVersion ==
    \E f \in 0..2 :
        LET h   == sheet.meta
            new == IF sheet.has_meta
                   THEN noted(sheet, h, VERSION)
                   ELSE bumped(sheet, VERSION)
            ok  == f = 0 \/ ~sheet.has_meta
        IN  /\ VERSION < MaxVersion
            /\ sheet' = IF ok
                        THEN [new EXCEPT !.seen = <<h, new.version>>,
                                         !.fetched = FALSE,
                                         !.trail = <<"version">>]
                        ELSE [sheet EXCEPT !.trail = <<>>]
            /\ VERSION' = IF ok /\ (~sheet.has_meta
                                      \/ hash_differs(h, sheet.version_hash))
                          THEN VERSION + 1 ELSE VERSION
            /\ lastOp' = [Op("sheet_version") EXCEPT
                  !.result         = IF ok THEN "Ok"
                                     ELSE IF f = 1 THEN "Sheets" ELSE "Serde",
                  !.gotVersion     = ok,
                  !.newVersion     = IF ok THEN new.version ELSE 0,
                  !.before         = sheet.version,
                  !.hash           = h,
                  !.sameVersion    = ok /\ sheet.seen # <<>>
                                        /\ sheet.seen[1] = h,
                  !.fetchedBetween = sheet.fetched,
                  !.afterWrite     = sheet.trail = <<"version", "write">>]
            /\ SheetUnchanged

\* fault variant of decoded: a row that does not decode ends the list
decoded_until_bad(rows) ==
    LET bad == {p \in 1..Len(rows) : rows[p] = None}
    IN  IF bad = {} THEN rows
        ELSE SubSeq(rows, 1, (CHOOSE p \in bad : \A q \in bad : p <= q) - 1)

\* values.into_iter().map(|data| E::deserialize(..).ok()).filter_map(|e| e)
\* (`range.values` None, no values in the region, gives vec![])
decoded(rows) == SelectSeq(rows, LAMBDA r : r # None)

\* TableFetch::fetch: reads the data region; version and version_hash are
\* not touched. ok: the values_get call succeeded
SheetFetch ==
    \E ok \in BOOLEAN :
        /\ sheet' = [sheet EXCEPT !.fetched = @ \/ ok, !.trail = <<>>]
        /\ lastOp' = [Op("sheet_fetch") EXCEPT
              !.result = IF ok THEN "Ok" ELSE "Sheets",
              !.before = sheet.version,
              !.fetchCalls = 1,
              !.fetched = sheet.rows,
              !.out = IF ok THEN decoded(sheet.rows) ELSE <<>>]
        /\ UNCHANGED VERSION
        /\ SheetUnchanged

\* the spreadsheet recomputes the hash cell after an edit (by a task this
\* program spawned on a clone of the Sheet, or by anyone else)
SheetEdited ==
    \E h \in Hashes :
        /\ h # sheet.meta
        /\ sheet' = [sheet EXCEPT !.meta = h]
        /\ lastOp' = [Op("sheet_edited") EXCEPT !.hash = h]
        /\ UNCHANGED VERSION
        /\ SheetUnchanged

\* Sheet::new: version: 0, version_hash: "" (nothing is drawn)
InitSheet ==
    /\ \E m \in BOOLEAN, h \in Hashes : sheet = NewSheet(m, h, <<>>)
    /\ VERSION \in 0..1
    /\ table = InMemTable(<<>>, 0)
    /\ index = <<>>
    /\ inserted = {}
    /\ fork = NoFork
    /\ NoAside
    /\ NoCache
    /\ lastOp = NoOp

NextSheet ==
    \/ SheetVersion
    \/ SheetFetch
    \/ SheetEdited

SpecSheet == InitSheet /\ [][NextSheet]_vars

\* ------------------------------------------ Sheet: the detached writes
\* extend / update clone the Sheet, spawn extend_impl / update_impl on the
\* clone and return Ok(()). A task is
\*   [op, from_row, entries, pc, row_from, hash]
\* pc: "probe" (extend_impl before fetch_last_available_row) or "submit";
\* row_from: the probed free row (a sheet row); hash: the clone's
\* version_hash. The JoinHandle is dropped: nobody learns how a task ended.
\* The caller is followed with one detached write pending at a time.
\* the values API leaves out the empty rows at the end of a region
RECURSIVE Trimmed(_)
Trimmed(rows) ==
    IF rows # <<>> /\ rows[Len(rows)] = None
    THEN Trimmed(SubSeq(rows, 1, Len(rows) - 1)) ELSE rows

\* fetch_last_available_row: the row under the table values_append found,
\* data_range.r_start when it found no table
probed(s) == IF s.rows = <<>> THEN s.r_start ELSE s.r_start + Len(s.rows)

\* the batched edit of extend_impl: insert n sheet rows under row_from
\* (start_index 1 + row_from), write the records to row_from.. and copy
\* the format; d is row_from as a data row
extended(rows, d, entries) ==
    LET n    == Len(entries)
        head == SubSeq(rows, 1, Min(d, Len(rows))) \o [k \in 1..(d - Len(rows)) |-> None]
        rest == SubSeq(rows, d + 2, Len(rows))
    IN  IF n = 0 THEN rows
        ELSE Trimmed(head \o entries \o <<None>> \o rest)

\* the edit of update_impl: the records overwrite from_row..
updated(rows, from_row, entries) ==
    Trimmed(_update(InMemTable(rows, 0), from_row, entries, 0).rows)

\* `self.args.format_range.with_rows(row_from - 1, row_from)` on usize:
\* with row_from = 0 the subtraction overflows, which panics where overflow
\* checks are compiled in and wraps around where they are not (the request
\* then names row -1 and the API answers with an error)
TemplateRow(row_from) ==
    IF row_from > 0 THEN {"ok"} ELSE {"panic", "wrapped"}

\* fault variant of Detach: the call runs the write itself and hands its
\* failure to the caller
Attach(op, from_row, entries) ==
    \E ok \in BOOLEAN :
        /\ Len(sheet.rows) + Len(entries) <= MaxRows + 1
        /\ sheet' = [sheet EXCEPT
              !.rows  = IF ~ok THEN @
                        ELSE IF op = "extend"
                        THEN extended(@, Len(@), entries)
                        ELSE updated(@, from_row, entries),
              !.trail = IF sheet.trail = <<"version">>
                        THEN <<"version", "write">> ELSE <<>>]
        /\ lastOp' = [Op(IF op = "extend" THEN "sheet_extend" ELSE "sheet_update")
              EXCEPT !.result = IF ok THEN "Ok" ELSE "Sheets",
                     !.from_row = from_row, !.entries = entries,
                     !.before = sheet.version]
        /\ UNCHANGED VERSION
        /\ SheetUnchanged

\* TableExtend::extend / TableUpdate::update:
\*   tokio::task::spawn(self.clone().<op>_impl(..)); Ok(())
Detach(op, from_row, entries) ==
    /\ sheet.tasks = <<>>
    /\ sheet' = [sheet EXCEPT
          !.tasks = Append(@,
              [op |-> op, from_row |-> from_row, entries |-> entries,
               pc |-> IF op = "extend" THEN "probe" ELSE "submit",
               row_from |-> 0, hash |-> sheet.version_hash]),
          !.trail = IF sheet.trail = <<"version">>
                    THEN <<"version", "write">> ELSE <<>>]
    /\ lastOp' = [Op(IF op = "extend" THEN "sheet_extend" ELSE "sheet_update")
          EXCEPT !.result = "Ok",
                 !.from_row = from_row, !.entries = entries,
                 !.before = sheet.version]
    /\ UNCHANGED VERSION
    /\ SheetUnchanged

SheetExtend == \E entries \in Inputs : Detach("extend", 0, entries)

SheetUpdate ==
    \E from_row \in 0..(MaxRows - 1), entries \in Inputs :
        Detach("update", from_row, entries)

\* extend_impl, first await: fetch_last_available_row().await?
\* f: 0 it returns a row, 1 Error::Sheets, 2 Error::InvalidResponse
TaskProbe ==
    \E i \in 1..Len(sheet.tasks), f \in 0..2 :
        /\ sheet.tasks[i].pc = "probe"
        /\ sheet' = [sheet EXCEPT !.tasks =
              IF f = 0
              THEN [@ EXCEPT ![i].pc = "submit", ![i].row_from = probed(sheet)]
              ELSE SubSeq(@, 1, i - 1) \o SubSeq(@, i + 1, Len(@))]
        /\ lastOp' = [Op("task_probe") EXCEPT
              !.result = IF f = 0 THEN "Ok"
                         ELSE IF f = 1 THEN "Sheets" ELSE "InvalidResponse",
              !.before = sheet.version]
        /\ UNCHANGED VERSION
        /\ SheetUnchanged

\* the rest of extend_impl / update_impl: the records are serialized, the
\* batched edit is submitted (update_cells) and the clone re-reads its
\* version. f: 0 all succeed, 1 a record does not serialize (Error::Serde),
\* 2 batch_update fails, 3 the clone's fetch_version fails after the edit
\* landed. The spreadsheet recomputes the hash cell when the edit lands.
TaskSubmit ==
    \E i \in 1..Len(sheet.tasks), f \in 0..3, h \in Hashes :
      \E t \in TemplateRow(sheet.tasks[i].row_from) :
        LET task   == sheet.tasks[i]
            sound  == task.op = "update" \/ t = "ok"
            lands  == f \in {0, 3} /\ sound
            rows   == IF task.op = "extend"
                      THEN extended(sheet.rows, task.row_from - sheet.r_start,
                                    task.entries)
                      ELSE updated(sheet.rows, task.from_row, task.entries)
            draws  == lands /\ f = 0
                      /\ (~sheet.has_meta \/ hash_differs(h, task.hash))
        IN  /\ task.pc = "submit"
            /\ IF sheet.has_meta THEN h # sheet.meta ELSE h = sheet.meta
            /\ lands => Len(rows) <= MaxRows + 1
            /\ draws => VERSION < MaxVersion
            /\ sheet' = [sheet EXCEPT
                  !.tasks = SubSeq(@, 1, i - 1) \o SubSeq(@, i + 1, Len(@)),
                  !.rows  = IF lands THEN rows ELSE @,
                  !.meta  = IF lands THEN h ELSE @]
            /\ VERSION' = IF draws THEN VERSION + 1 ELSE VERSION
            /\ lastOp' = [Op("task_submit") EXCEPT
                  !.result = IF f = 1 THEN "Serde"
                             ELSE IF ~sound
                             THEN (IF t = "panic" THEN "panic" ELSE "Sheets")
                             ELSE IF f = 0 THEN "Ok" ELSE "Sheets",
                  !.originWrite = IF lands THEN "ok" ELSE "err",
                  !.before = sheet.version]
            /\ SheetUnchanged

\* Sheet::new on a spreadsheet that holds some rows; the data range starts
\* under a header row, or at the first row of a sheet that is still empty
InitDetach ==
    /\ \E m \in BOOLEAN, h \in Hashes, r \in 0..1,
          rows \in UNION {[1..k -> E \cup {None}] : k \in 0..(MaxRows + 1)} :
          /\ rows = Trimmed(rows)
          /\ ~m => h = 0
          /\ r = 0 => ~m /\ rows = <<>>
          /\ sheet = [NewSheet(m, h, rows) EXCEPT !.r_start = r]
    /\ VERSION = MaxVersion - 2
    /\ table = InMemTable(<<>>, 0)
    /\ index = <<>>
    /\ inserted = {}
    /\ fork = NoFork
    /\ NoAside
    /\ NoCache
    /\ lastOp = NoOp

NextDetach ==
    \/ SheetVersion
    \/ SheetFetch
    \/ SheetExtend
    \/ SheetUpdate
    \/ TaskProbe
    \/ TaskSubmit

SpecDetach == InitDetach /\ [][NextDetach]_vars

\* ------------------------------------- Sheet: two extends in flight
\* sheet.extend(a) and sheet.extend(b) have both returned Ok(()): each has
\* spawned extend_impl on a clone, and neither task has made its first
\* request yet. The runtime schedules the two tasks in any order.
InitTwo ==
    /\ \E m \in BOOLEAN, h \in Hashes, r \in 0..1, a \in Inputs, b \in Inputs,
          rows \in UNION {[1..k -> E \cup {None}] : k \in 0..MaxRows} :
          LET task(entries) ==
                  [op |-> "extend", from_row |-> 0, entries |-> entries,
                   pc |-> "probe", row_from |-> 0, hash |-> 0]
          IN  /\ rows = Trimmed(rows)
              /\ ~m => h = 0
              /\ r = 0 => ~m /\ rows = <<>>
              /\ sheet = [NewSheet(m, h, rows) EXCEPT
                             !.r_start = r, !.tasks = <<task(a), task(b)>>]
    /\ VERSION = MaxVersion - 2
    /\ table = InMemTable(<<>>, 0)
    /\ index = <<>>
    /\ inserted = {}
    /\ fork = NoFork
    /\ NoAside
    /\ NoCache
    /\ lastOp = NoOp

SpecTwo == InitTwo /\ [][TaskProbe \/ TaskSubmit]_vars

\* ------------------------------- Cache over a Sheet without meta region
\* Cache<Sheet<E>, InMemTable<E>>: `origin.rows` is the spreadsheet's data
\* region as fetch() returns it, `sheet` the adapter. Only the operations
\* that read the origin are taken here.
\* somebody edits the spreadsheet
BareEdited ==
    \E rows \in Inputs :
        /\ rows # origin.rows
        /\ origin' = [origin EXCEPT !.rows = rows]
        /\ lastOp' = Op("sheet_edited")
        /\ UNCHANGED <<VERSION, cache, last_origin_version, clocked,
                       cached_version, elapsed, initial_version, report,
                       sinceInner, dirty, observed, phase, fork, standalone>>

\* let origin = Sheet::new(hub, id, args)      -- version 0, nothing drawn
\* Cache::new(origin, [].into())               -- mirror draws, then the Cache
InitBare ==
    /\ sheet = NewSheet(FALSE, 0, <<>>)
    /\ \E rows \in Inputs : origin = InMemTable(rows, 0)
    /\ clocked = FALSE
    /\ cached_version = 0
    /\ initial_version = 0
    /\ elapsed = 0
    /\ cache = InMemTable(<<>>, 0)
    /\ last_origin_version = 1
    /\ VERSION = 2
    /\ report = <<>>
    /\ sinceInner = -1
    /\ dirty = FALSE
    /\ observed = -1
    /\ phase = "active"
    /\ fork = NoFork
    /\ table = InMemTable(<<>>, 0)
    /\ index = <<>>
    /\ inserted = {}
    /\ NoAside
    /\ lastOp = NoOp

NextBare ==
    \/ CacheRefresh
    \/ CacheFetch
    \/ CacheRead
    \/ CacheMarkAsDirty
    \/ BareEdited

SpecBare == InitBare /\ [][NextBare]_vars

\* ------------------------------------------------- the version generator
\* static VERSION: AtomicU64; next_version() is one atomic read-modify-write.
\* gen: the calls made so far, in the order of the atomic's modifications,
\* each [task, value]: the calling task (one of two) and the value it was
\* handed.
NoTables ==
    /\ NoCache
    /\ fork = NoFork
    /\ table = InMemTable(<<>>, 0)
    /\ index = <<>>
    /\ inserted = {}
    /\ sheet = <<>>

TablesUnchanged == UNCHANGED <<cacheVars, fork, table, index, inserted, sheet>>

\* fault variant of fetch_add: the addition is lost
fetch_add_lost(v, n) == [returned |-> v, stored |-> v]

\* AtomicU64::fetch_add(n, Relaxed): hands out the value held, stores the sum
fetch_add(v, n) == [returned |-> v, stored |-> v + n]

\* a task calls next_version()
NextVersion ==
    \E t \in 1..2 :
        LET r == fetch_add(VERSION, 1)
        IN  /\ VERSION < MaxVersion
            /\ VERSION' = r.stored
            /\ gen' = Append(gen, [task |-> t, value |-> r.returned])
            /\ lastOp' = [Op("next_version") EXCEPT
                  !.called = t, !.newVersion = r.returned,
                  !.before = VERSION]
            /\ UNCHANGED <<codec, range>>
            /\ TablesUnchanged

\* the process starts with VERSION = 0
InitGen ==
    /\ VERSION = 0
    /\ gen = <<>>
    /\ codec = <<>>
    /\ range = <<>>
    /\ NoTables
    /\ lastOp = NoOp

NextGen == NextVersion

SpecGen == InitGen /\ [][NextGen]_vars

\* ------------------------------------------------------- the row protocol
\* RowSerializer writes a record to a row of cells, RowDeserializer reads a
\* record of a given type from a row. codec is one such run:
\*   side: "ser" / "de"; trip: the row read is the row written before;
\*   shape: how the record type begins (a compound, or "bare": a scalar or
\*   newtype of one, nothing begins); kinds: its fields' types in order;
\*   values: the record's field values; cells: the CellData written;
\*   data: the cells the deserializer has not consumed; out: the values
\*   decoded; at: the next field; seq_began: the flag; status: "new", "run",
\*   "Ok", an Error variant, or "panic".
Scalars   == {"string", "u64", "bool", "enum", "option", "unit"}
Compounds == {"seq", "tuple", "tuple_struct", "struct", "map"}


\* the values of each field type the runs are made with ("option" is
\* Option<u64>, "enum" has unit variants only)
ValuesOf(kind) ==
    CASE kind = "string" -> {"a", " a"}
      [] kind = "u64"    -> {"1", "9007199254740993"}      \* 2^53 + 1
      [] kind = "bool"   -> {"TRUE"}
      [] kind = "enum"   -> {"V1"}
      [] kind = "option" -> {"None", "1"}
      [] kind = "unit"   -> {"()"}
      [] OTHER           -> {"-"}

\* the field lists: a compound field ends the run, nothing after it is
\* looked at
KindSeqs ==
    UNION {{ks \in [1..n -> Scalars \cup Compounds] :
                \A i \in 1..(n - 1) : ks[i] \in Scalars} :
           n \in 1..(MaxLen + 1)}

ValueSeqs(ks) ==
    {vs \in [DOMAIN ks -> UNION {ValuesOf(k) : k \in Scalars \cup Compounds}] :
        \A i \in DOMAIN ks : vs[i] \in ValuesOf(ks[i])}

Cell(t, v) == [t |-> t, v |-> v]

\* rows as values_get hands them to fetch()
ReadRows ==
    UNION {[1..n -> {Cell("Null", ""), Cell("String", ""), Cell("String", "1")}] :
             n \in 0..(MaxLen + 1)}

\* `v as f64`
as_f64(v) == IF v = "9007199254740993" THEN "9007199254740992" ELSE v

\* serialize_str / impl_ser_num / serialize_bool / serialize_unit_variant /
\* serialize_none, serialize_some / serialize_unit: the CellData pushed
serialized(kind, v) ==
    CASE kind = "string" -> Cell("string", v)
      [] kind = "u64"    -> Cell("number", as_f64(v))
      [] kind = "bool"   -> Cell("bool", v)
      [] kind = "enum"   -> Cell("string", v)
      [] kind = "option" -> IF v = "None" THEN Cell("string", "")
                            ELSE Cell("number", as_f64(v))
      [] kind = "unit"   -> Cell("string", "")

\* serialize_seq, and serialize_tuple / _tuple_struct / _struct, which call
\* it; serialize_map
begin_ser(kind, began) ==
    IF kind = "map" THEN [status |-> "UnexpectedMap", began |-> began]
    ELSE IF ~began THEN [status |-> "Ok", began |-> TRUE]
    ELSE [status |-> "UnexpectedSequence", began |-> began]

\* fault variant of begin_de: a compound may begin inside another
begin_de_nested(kind, began) ==
    IF kind = "map" THEN [status |-> "UnexpectedMap", began |-> began]
    ELSE [status |-> "Ok", began |-> TRUE]

\* deserialize_seq / _tuple / _tuple_struct / _struct / _map
begin_de(kind, began) ==
    IF kind = "map" THEN [status |-> "UnexpectedMap", began |-> began]
    ELSE IF ~began THEN [status |-> "Ok", began |-> TRUE]
    ELSE [status |-> CASE kind = "seq"   -> "UnexpectedSequence"
                       [] kind = "tuple" -> "UnexpectedTuple"
                       [] OTHER          -> "UnexpectedStruct",
          began |-> began]

\* the cell as the values API returns it: formatted (every cell a string) or
\* unformatted (numbers and booleans as JSON values)
rendered(cell, mode) ==
    IF mode = "formatted" \/ cell.t = "string" THEN Cell("String", cell.v)
    ELSE IF cell.t = "number" THEN Cell("Number", cell.v)
    ELSE Cell("Bool", cell.v)

Res(status, value, rest) == [status |-> status, value |-> value, rest |-> rest]

\* next() and the match on the cell (s.parse::<u64>() takes digits only)
parse_u64(data) ==
    IF data = <<>> THEN Res("OutOfBounds", "", data)
    ELSE IF \/ data[1].t = "Number"
            \/ /\ data[1].t = "String"
               /\ data[1].v \in {"1", "9007199254740993", "9007199254740992"}
         THEN Res("Ok", data[1].v, Tail(data))
         ELSE Res("ExpectedUnsigned", "", Tail(data))

\* Ok(s.trim())
parse_str(data) ==
    IF data = <<>> THEN Res("OutOfBounds", "", data)
    ELSE IF data[1].t = "String"
         THEN Res("Ok", IF data[1].v = " a" THEN "a" ELSE data[1].v, Tail(data))
         ELSE Res("ExpectedBoolean", "", Tail(data))

parse_bool(data) ==
    IF data = <<>> THEN Res("OutOfBounds", "", data)
    ELSE IF \/ data[1].t = "Bool"
            \/ data[1].t = "String" /\ data[1].v \in {"TRUE", "FALSE"}
         THEN Res("Ok", data[1].v, Tail(data))
         ELSE Res("ExpectedBoolean", "", Tail(data))

\* `match &self.data[0]`: the caller makes sure data is not empty, or the
\* index panics
is_next_empty(data) ==
    \/ data[1].t = "Null"
    \/ data[1].t = "String" /\ data[1].v = ""

\* deserialize_string, _u64, _bool, _enum, _option, _unit on the cells left
deserialized(kind, data) ==
    CASE kind = "string" -> parse_str(data)
      [] kind = "u64"    -> parse_u64(data)
      [] kind = "bool"   -> parse_bool(data)
      [] kind = "enum"   ->
            LET r == parse_str(data)
            IN  IF r.status = "Ok" /\ r.value \notin ValuesOf("enum")
                THEN Res("Custom", "", r.rest) ELSE r
      [] kind = "option" ->
            IF data = <<>> THEN Res("panic", "", data)
            ELSE IF is_next_empty(data) THEN Res("Ok", "None", data)
            ELSE parse_u64(data)
      [] kind = "unit"   ->
            IF data = <<>> THEN Res("panic", "", data)
            ELSE IF is_next_empty(data) THEN Res("Ok", "()", data)
            ELSE Res("ExpectedEmpty", "", data)

Stepped(name, new) ==
    /\ codec' = new
    /\ lastOp' = [Op(name) EXCEPT !.result = new.status]
    /\ UNCHANGED <<VERSION, gen, range>>
    /\ TablesUnchanged

\* T::serialize reaches serialize_struct / _tuple / _seq / _map
SerializeBegin ==
    /\ codec.side = "ser" /\ codec.status = "new"
    /\ LET r == begin_ser(codec.shape, codec.seq_began)
       IN  Stepped("serialize_begin",
             IF codec.shape = "bare" THEN [codec EXCEPT !.status = "run"]
             ELSE [codec EXCEPT
                     !.status = IF r.status = "Ok" THEN "run" ELSE r.status,
                     !.seq_began = r.began])

\* serialize_field / serialize_element: value.serialize(&mut **self)
SerializeField ==
    /\ codec.side = "ser" /\ codec.status = "run"
    /\ codec.at <= Len(codec.kinds)
    /\ LET k == codec.kinds[codec.at]
           r == begin_ser(k, codec.seq_began)
       IN  Stepped("serialize_field",
             IF k \in Compounds
             THEN [codec EXCEPT
                     !.status = IF r.status = "Ok" THEN "run" ELSE r.status,
                     !.seq_began = r.began,
                     !.at = @ + 1]
             ELSE [codec EXCEPT
                     !.cells = Append(@, serialized(k, codec.values[codec.at])),
                     !.at = @ + 1])

\* SerializeStruct::end, or the scalar's own Ok
SerializeEnd ==
    /\ codec.side = "ser" /\ codec.status = "run"
    /\ codec.at > Len(codec.kinds)
    /\ Stepped("serialize_end", [codec EXCEPT !.status = "Ok"])

\* the row is written, read back and given to RowDeserializer::new
ReadBack ==
    /\ codec.side = "ser" /\ codec.status = "Ok"
    /\ \E mode \in {"formatted", "unformatted"} :
         Stepped("read_back",
           [codec EXCEPT
              !.side = "de", !.status = "new", !.seq_began = FALSE,
              !.at = 1,
              !.data = [i \in DOMAIN codec.cells |->
                          rendered(codec.cells[i], mode)]])

\* T::deserialize reaches deserialize_struct / _tuple / _seq / _map
DeserializeBegin ==
    /\ codec.side = "de" /\ codec.status = "new"
    /\ LET r == begin_de(codec.shape, codec.seq_began)
       IN  Stepped("deserialize_begin",
             IF codec.shape = "bare" THEN [codec EXCEPT !.status = "run"]
             ELSE [codec EXCEPT
                     !.status = IF r.status = "Ok" THEN "run" ELSE r.status,
                     !.seq_began = r.began])

\* the visitor asks for the next field: RowSeqAccess::next_element_seed
\* gives Ok(None) when no cell is left (the end of a Vec, invalid_length for
\* a struct or tuple), else T::deserialize(&mut *self.deserializer); a bare
\* type is deserialized without that test
DeserializeField ==
    /\ codec.side = "de" /\ codec.status = "run"
    /\ codec.at <= Len(codec.kinds)
    /\ LET k == codec.kinds[codec.at]
           b == begin_de(k, codec.seq_began)
           r == deserialized(k, codec.data)
       IN  Stepped("deserialize_field",
             IF codec.shape # "bare" /\ codec.data = <<>>
             THEN [codec EXCEPT
                     !.status = IF codec.shape = "seq" THEN "Ok" ELSE "Custom"]
             ELSE IF k \in Compounds
             THEN [codec EXCEPT
                     !.status = IF b.status = "Ok" THEN "run" ELSE b.status,
                     !.seq_began = b.began,
                     !.at = @ + 1]
             ELSE [codec EXCEPT
                     !.status = IF r.status = "Ok" THEN "run" ELSE r.status,
                     !.out = IF r.status = "Ok" THEN Append(@, r.value) ELSE @,
                     !.data = r.rest,
                     !.at = @ + 1])

\* the visitor has every field: Ok(record); cells left over are ignored
DeserializeEnd ==
    /\ codec.side = "de" /\ codec.status = "run"
    /\ codec.at > Len(codec.kinds)
    /\ Stepped("deserialize_end", [codec EXCEPT !.status = "Ok"])

NewCodec(side, shape, kinds, values, data) ==
    [side |-> side, trip |-> side = "ser", shape |-> shape, kinds |-> kinds,
     values |-> values, cells |-> <<>>, data |-> data, out |-> <<>>,
     at |-> 1, seq_began |-> FALSE, status |-> "new"]

\* RowSerializer::default() with a record to write, or RowDeserializer::new
\* on a row that was read, with the record type to read
InitRow ==
    /\ \E shape \in Compounds \cup {"bare"}, kinds \in KindSeqs :
         /\ shape = "bare" => Len(kinds) = 1 /\ kinds[1] \in Scalars
         /\ \/ \E values \in ValueSeqs(kinds) :
                 codec = NewCodec("ser", shape, kinds, values, <<>>)
            \/ \E data \in ReadRows :
                 codec = NewCodec("de", shape, kinds, <<>>, data)
    /\ VERSION = 0
    /\ gen = <<>>
    /\ range = <<>>
    /\ NoTables
    /\ lastOp = NoOp

NextRow ==
    \/ SerializeBegin
    \/ SerializeField
    \/ SerializeEnd
    \/ ReadBack
    \/ DeserializeBegin
    \/ DeserializeField
    \/ DeserializeEnd

SpecRow == InitRow /\ [][NextRow]_vars

\* --------------------------------------------------------- range parsing
\* SheetRange::from_str on a reference "<name>!<cols><row>[:<cols><row>]".
\* A reference is given by what A1_RE captures from it:
\*   matches: the text matches the pattern at all; c_start, c_end: the
\*   column letters, a letter being its place in the alphabet (A = 1);
\*   r_start, r_end: the row digits, Nothing when the group is empty;
\*   has_end: the ":<cols><row>" part is there.
\* range: [pc, trip, region, ref, result]; pc "region" while a SheetRange
\* waits to be written out (trip: the text parsed is that output), "new"
\* before from_str, "parsed" after.
Columns == UNION {[1..n -> {1, 2, 4, 26}] : n \in 1..2}    \* A, B, D, Z
OptRows == {Nothing} \cup {Some(r) : r \in 1..(MaxRows + 2)}

Reference(matches, c_start, r_start, has_end, c_end, r_end) ==
    [matches |-> matches, c_start |-> c_start, r_start |-> r_start,
     has_end |-> has_end, c_end |-> c_end, r_end |-> r_end]

References ==
    {Reference(FALSE, <<1>>, Nothing, FALSE, <<1>>, Nothing)}
    \cup {Reference(TRUE, c, r, FALSE, <<1>>, Nothing) :
            c \in Columns, r \in OptRows}
    \cup {Reference(TRUE, c[1], r[1], TRUE, c[2], r[2]) :
            c \in Columns \X Columns, r \in OptRows \X OptRows}

\* fault variant of to_col: A is the digit 0
RECURSIVE to_col_zero_based(_)
to_col_zero_based(letters) ==
    IF letters = <<>> THEN 0
    ELSE to_col_zero_based(SubSeq(letters, 1, Len(letters) - 1)) * 26
         + letters[Len(letters)] - 1

\* to_col: chars().fold(0, |acc, c| acc * 26 + (c - 'A' + 1))
RECURSIVE to_col(_)
to_col(letters) ==
    IF letters = <<>> THEN 0
    ELSE to_col(SubSeq(letters, 1, Len(letters) - 1)) * 26
         + letters[Len(letters)]

\* .filter(|s| !s.is_empty()).map(to_row)
to_row(digits, default) == IF digits = Nothing THEN default ELSE digits[1]

Parsed(ok, c_start, c_end, r_start, r_end) ==
    [ok |-> ok, c_start |-> c_start, c_end |-> c_end,
     r_start |-> r_start, r_end |-> r_end]

InvalidRange == Parsed(FALSE, 0, 0, 0, Nothing)

\* `if c_start > c_end || r_end.is_some_and(|r_end| r_end < r_start)`
reversed(c_start, c_end, r_start, r_end) ==
    c_start > c_end \/ (r_end # Nothing /\ r_end[1] < r_start)

\* SheetRange::from_str
from_str(ref) ==
    LET c_start == to_col(ref.c_start) - 1
        r_start == to_row(ref.r_start, 1) - 1
        c_end   == IF ref.has_end THEN to_col(ref.c_end) ELSE c_start + 1
        r_end   == IF ref.has_end THEN ref.r_end ELSE Some(r_start + 1)
    IN  IF ~ref.matches THEN InvalidRange
        ELSE IF reversed(c_start, c_end, r_start, r_end) THEN InvalidRange
        ELSE Parsed(TRUE, c_start, c_end, r_start, r_end)

\* from_col: repeat('A').take(col / 26) chained with the letter col % 26
from_col(col) == [k \in 1..(col \div 26) |-> 1] \o <<(col % 26) + 1>>

\* SheetRange::to_string: "{name}!{c_start}{r_start + 1}:{c_end - 1}{r_end}"
to_string(region) ==
    Reference(TRUE, from_col(region.c_start), Some(region.r_start + 1),
              TRUE, from_col(region.c_end - 1), region.r_end)

\* the SheetRanges written out: columns around the one- and two-letter
\* boundaries, one or two columns wide
Regions ==
    {Parsed(TRUE, c, c + w, r, e) :
        c \in {0, 1, 25, 26, 51, 52}, w \in 1..2, r \in 0..1, e \in OptRows}

\* range.to_string()
RangeToString ==
    /\ range.pc = "region"
    /\ range' = [range EXCEPT !.pc = "new", !.ref = to_string(range.region)]
    /\ lastOp' = Op("to_string")
    /\ UNCHANGED <<VERSION, gen, codec>>
    /\ TablesUnchanged

\* "<text>".parse::<SheetRange>()
RangeParse ==
    /\ range.pc = "new"
    /\ range' = [range EXCEPT !.pc = "parsed", !.result = from_str(range.ref)]
    /\ lastOp' = [Op("from_str") EXCEPT
          !.result = IF from_str(range.ref).ok THEN "Ok" ELSE "InvalidRange"]
    /\ UNCHANGED <<VERSION, gen, codec>>
    /\ TablesUnchanged

InitRange ==
    /\ \/ \E ref \in References :
            range = [pc |-> "new", trip |-> FALSE, region |-> InvalidRange,
                     ref |-> ref, result |-> InvalidRange]
       \/ \E region \in Regions :
            range = [pc |-> "region", trip |-> TRUE, region |-> region,
                     ref |-> Reference(FALSE, <<1>>, Nothing, FALSE, <<1>>,
                                       Nothing),
                     result |-> InvalidRange]
    /\ VERSION = 0
    /\ gen = <<>>
    /\ codec = <<>>
    /\ NoTables
    /\ lastOp = NoOp

NextRange ==
    \/ RangeToString
    \/ RangeParse

SpecRange == InitRange /\ [][NextRange]_vars

\* =============================================================== claims
IsRefresh(o) == o.op \in {"refresh", "fetch"}
IsWrite(o)   == o.op \in {"extend", "update"}

\* C1: a refresh() that gets from the origin a version different from the
\* last-observed one and whose fetch / clear / extend succeed leaves read()
\* equal to exactly what origin.fetch() returned (nothing of the previous
\* mirror survives); fetch() returns what read() yields after the refresh.
C1_RefreshLoadsOrigin ==
    [][ (IsRefresh(lastOp') /\ lastOp'.result = "Ok")
        => /\ (lastOp'.gotVersion /\ lastOp'.newVersion # last_origin_version)
                => /\ lastOp'.fetched = read(origin)
                   /\ read(cache') = lastOp'.fetched
                   /\ cache'.rows = lastOp'.fetched
           /\ lastOp'.op = "fetch" => lastOp'.out = read(cache') ]_vars

\* a fetch() rebuilt a mirror and returned the origin's non-empty content
C1_Witness ==
    /\ lastOp.op = "fetch" /\ lastOp.result = "Ok" /\ lastOp.fetchCalls = 1
    /\ lastOp.fetched # <<>> /\ lastOp.out = lastOp.fetched

\* C2: a refresh() that gets from the origin the last-observed version makes
\* no origin fetch and no mirror clear / extend call and leaves the mirror
\* (rows and version) and last-observed unchanged.
C2_UnchangedVersionNoRebuild ==
    [][ (IsRefresh(lastOp') /\ lastOp'.gotVersion
            /\ lastOp'.newVersion = last_origin_version)
        => /\ lastOp'.fetchCalls = 0
           /\ lastOp'.clearCalls = 0
           /\ lastOp'.extendCalls = 0
           /\ lastOp'.result = "Ok"
           /\ cache' = cache
           /\ last_origin_version' = last_origin_version ]_vars

\* a refresh() saw the version it already knew, after an earlier rebuild
C2_Witness ==
    /\ lastOp.op = "refresh" /\ lastOp.gotVersion
    /\ lastOp.newVersion = last_origin_version /\ lastOp.fetchCalls = 0
    /\ cache.rows # <<>>

\* C3: read() returns the mirror's view and never consults the origin: no
\* origin version / fetch call, and last-observed, the mirror, the origin and
\* the Clock stay as they were, also when the origin has changed meanwhile.
C3_ReadIsLocal ==
    [][ lastOp'.op = "read"
        => /\ lastOp'.versionCalls = 0 /\ lastOp'.innerCalls = 0
           /\ lastOp'.fetchCalls = 0
           /\ lastOp'.clearCalls = 0 /\ lastOp'.extendCalls = 0
           /\ lastOp'.out = read(cache)
           /\ UNCHANGED <<VERSION, origin, cache, last_origin_version,
                          cached_version, elapsed>> ]_vars

\* a read() returned a stale view: the origin has another version and content
C3_Witness ==
    /\ lastOp.op = "read"
    /\ origin.version # last_origin_version
    /\ lastOp.out # read(origin)

\* C4: the first refresh() after mark_as_dirty() that gets a version from the
\* origin fetches from the origin and, if the fetch and the mirror calls
\* succeed, rebuilds the mirror wholesale, whatever the version is.
C4_DirtyForcesRebuild ==
    [][ (dirty /\ IsRefresh(lastOp') /\ lastOp'.gotVersion)
        => /\ lastOp'.fetchCalls = 1
           /\ lastOp'.result = "Ok"
                => /\ lastOp'.clearCalls = 1 /\ lastOp'.extendCalls = 1
                   /\ read(cache') = read(origin) ]_vars

\* a refresh() after mark_as_dirty() got the same version as the refresh
\* before it, and fetched and rebuilt all the same
C4_Witness ==
    /\ IsRefresh(lastOp) /\ lastOp.wasDirty /\ lastOp.sameVersion
    /\ lastOp.fetchCalls = 1 /\ lastOp.extendCalls = 1 /\ lastOp.result = "Ok"

\* C5: extend / update hand the same entries to the mirror and the origin;
\* Ok is returned only if both accepted; a mirror failure is reported as
\* Error::Cache, an origin failure as Error::Origin, never the other way.
C5_WriteErrorKinds ==
    [][ IsWrite(lastOp')
        => /\ lastOp'.result = "Ok"
                <=> (lastOp'.mirrorWrite = "ok" /\ lastOp'.originWrite = "ok")
           /\ lastOp'.result = "Cache" <=> lastOp'.mirrorWrite = "err"
           /\ lastOp'.result = "Origin" <=> lastOp'.originWrite = "err"
           /\ lastOp'.result = "Ok"
                => /\ cache'.rows = written(lastOp'.op, cache,
                          lastOp'.from_row, lastOp'.entries, 0).rows
                   /\ origin'.rows = written(lastOp'.op, origin,
                          lastOp'.from_row, lastOp'.entries, 0).rows ]_vars

\* an update was refused by the mirror, and one by the origin
C5_Witness ==
    /\ lastOp.op = "update" /\ lastOp.entries # <<>>
    /\ lastOp.result = "Origin" /\ lastOp.mirrorWrite = "ok"

\* C6: when extend / update reports Error::Cache the origin write of that
\* call has succeeded; when it reports Error::Origin the origin write was
\* not applied.
C6_CacheErrorMeansOriginWritten ==
    IsWrite(lastOp)
    => /\ lastOp.result = "Cache" => lastOp.originWrite = "ok"
       /\ lastOp.result = "Origin" => lastOp.originWrite # "ok"

\* C7: once the origin's content stops changing and the origin's calls
\* succeed, with refresh() called again and again as time passes, read()
\* eventually equals the origin's content and stays equal, also after an
\* earlier refresh() failed in the origin fetch or the mirror rebuild.
C7_EventuallyCoherent ==
    <>[](phase = "quiet") => <>[](read(cache) = read(origin))

\* a Clock.version() call: the origin.version() call of a refresh / fetch on
\* a Cache whose origin is a Clock
ClockCalled(o) == clocked /\ IsRefresh(o)

C9_ReportedWithinTTL ==
    (ClockCalled(lastOp) /\ lastOp.gotVersion)
    => /\ report # <<>>
       /\ lastOp.newVersion = report[1]
       /\ report[2] <= TTL

\* C9 amended: every version Clock.version() returns is either the value
\* Clock::new drew from next_version() (only within the first TTL window,
\* before any re-query) or a version the wrapped component reported to the
\* Clock at most TTL ago.
C9_ReportedOrInitial ==
    (ClockCalled(lastOp) /\ lastOp.gotVersion)
    => \/ /\ report = <<>>
          /\ lastOp.newVersion = initial_version
          /\ elapsed <= TTL
       \/ /\ report # <<>>
          /\ lastOp.newVersion = report[1]
          /\ report[2] <= TTL

\* a version was returned exactly TTL after the wrapped component reported
\* it, while the wrapped component already has another one
C9_Witness ==
    /\ ClockCalled(lastOp) /\ lastOp.gotVersion /\ lastOp.innerCalls = 0
    /\ report # <<>> /\ report[2] = TTL
    /\ origin.version # lastOp.newVersion

IsForkWrite(o) == o.op \in {"fork_extend", "fork_update"}

ForkWritten(o, t) ==
    written(IF o.op = "fork_extend" THEN "extend" ELSE "update", t,
            o.from_row, o.entries, 0).rows

\* C10: when subscriber K of a fork extend / update fails, the origin and the
\* subscribers 1..K-1 reflect the write, having been called one after the
\* other in declared order; K and the subscribers after it are never called
\* and nothing is rolled back; the error is Error::Extend / Error::Update
\* with the variant of subscriber K, not the Origin variant.
C10_FanOutPartialApply ==
    [][ (IsForkWrite(lastOp') /\ lastOp'.variant = "Sub")
        => LET K == lastOp'.failed
           IN  /\ K \in 1..NumSubs
               /\ lastOp'.called = K
               /\ lastOp'.result = (IF lastOp'.op = "fork_extend"
                                    THEN "Extend" ELSE "Update")
               /\ fork'.origin.rows = ForkWritten(lastOp', fork.origin)
               /\ fork'.origin.version = VERSION
               /\ \A j \in 1..(K - 1) :
                     /\ fork'.subs[j].rows = ForkWritten(lastOp', fork.subs[j])
                     /\ fork'.subs[j].version = VERSION + j
               /\ \A j \in K..NumSubs : fork'.subs[j] = fork.subs[j] ]_vars

\* the second subscriber refused a non-empty extend: the first one has the
\* entry, the second and the later ones do not
C10_Witness ==
    /\ lastOp.op = "fork_extend" /\ lastOp.variant = "Sub" /\ lastOp.failed = 2
    /\ lastOp.entries # <<>>
    /\ fork.subs[1].rows # fork.subs[2].rows
    /\ fork.subs[2].rows = fork.subs[NumSubs].rows

\* C11: a fork extend / update writes the origin first: when the origin
\* returns an error no subscriber is called, every subscriber is left as it
\* was and the error is the Origin variant of Error::Extend / Error::Update;
\* a subscriber is called or changed only after the origin's write returned
\* Ok (the origin then holds the write).
C11_OriginFirst ==
    [][ IsForkWrite(lastOp')
        => /\ lastOp'.originWrite = "err"
                => /\ lastOp'.variant = "Origin"
                   /\ lastOp'.result = (IF lastOp'.op = "fork_extend"
                                        THEN "Extend" ELSE "Update")
                   /\ lastOp'.called = 0
                   /\ fork'.subs = fork.subs
           /\ (lastOp'.called > 0 \/ fork'.subs # fork.subs)
                => /\ lastOp'.originWrite = "ok"
                   /\ lastOp'.variant # "Origin"
                   /\ fork'.origin.rows = ForkWritten(lastOp', fork.origin) ]_vars

\* the origin refused a non-empty write: the subscribers still agree with
\* the origin, none of them has the entries
C11_Witness ==
    /\ IsForkWrite(lastOp) /\ lastOp.originWrite = "err"
    /\ lastOp.variant = "Origin" /\ lastOp.entries # <<>>
    /\ \A k \in 1..NumSubs : fork.subs[k].rows = <<>>
    /\ fork.origin.rows = <<>>

\* C12: after a successful fork fetch() every subscriber holds exactly the
\* entries the origin's fetch returned, nothing of its previous content, and
\* the returned entries are the origin's; when the origin's fetch fails no
\* subscriber is cleared or modified.
C12_FetchReloadsSubscribers ==
    [][ lastOp'.op = "fork_fetch"
        => /\ lastOp'.result = "Ok"
                => /\ lastOp'.fetched = read(fork.origin)
                   /\ lastOp'.out = lastOp'.fetched
                   /\ \A k \in 1..NumSubs :
                         fork'.subs[k].rows = lastOp'.fetched
           /\ lastOp'.result = "Fetch"
                => /\ lastOp'.variant = "Origin"
                   /\ lastOp'.called = 0
                   /\ fork'.subs = fork.subs ]_vars

\* a fetch() returned the origin's non-empty content and every subscriber
\* holds it
C12_Witness ==
    /\ lastOp.op = "fork_fetch" /\ lastOp.result = "Ok"
    /\ lastOp.out # <<>> /\ lastOp.out = read(fork.origin)
    /\ \A k \in 1..NumSubs : fork.subs[k].rows = lastOp.out

\* C13 (as stated): whenever the origin's fetch succeeds, fork fetch()
\* returns Ok with the origin's entries, whether or not a subscriber's clear
\* or reload fails.
C13_FetchGatedOnOriginOnly ==
    [][ (lastOp'.op = "fork_fetch" /\ lastOp'.result # "Fetch")
        => /\ lastOp'.result = "Ok"
           /\ lastOp'.out = read(fork.origin) ]_vars

\* C13 (amended): fork fetch() returns Ok with the origin's entries exactly
\* when the origin's fetch and every subscriber's clear and extend succeed.
\* When the clear of subscriber K fails it returns Error::Clear(K): the
\* subscribers before K are empty, K and the later ones are as they were.
\* When the extend of subscriber K fails it returns Error::Extend(K): the
\* subscribers before K hold the fetched entries, K and the later ones are
\* empty. No entries are returned in either case.
C13_FetchNeedsEverySubscriber ==
    [][ lastOp'.op = "fork_fetch"
        => LET K == lastOp'.failed
           IN  /\ (lastOp'.result = "Ok") <=> (lastOp'.variant = "none" /\ K = 0)
               /\ lastOp'.variant = "Sub"
                    => /\ K \in 1..NumSubs
                       /\ lastOp'.result \in {"Clear", "Extend"}
                       /\ lastOp'.fetched = read(fork.origin)
                       /\ lastOp'.out = <<>>
               /\ lastOp'.result = "Clear"
                    => /\ \A j \in 1..(K - 1) : fork'.subs[j].rows = <<>>
                       /\ \A j \in K..NumSubs : fork'.subs[j] = fork.subs[j]
               /\ lastOp'.result = "Extend"
                    => /\ \A j \in 1..(K - 1) :
                             fork'.subs[j].rows = lastOp'.fetched
                       /\ \A j \in K..NumSubs : fork'.subs[j].rows = <<>> ]_vars

\* the origin's fetch returned a record and the second subscriber refused
\* the reload: fetch() returned Error::Extend, the first subscriber has the
\* record, the others are empty
C13_Witness ==
    /\ lastOp.op = "fork_fetch" /\ lastOp.result = "Extend"
    /\ lastOp.failed = 2 /\ lastOp.fetched # <<>> /\ lastOp.out = <<>>
    /\ fork.subs[1].rows = lastOp.fetched
    /\ fork.subs[2].rows = <<>>

IsMemExtend(o) == o.op \in {"mem_extend", "mem_extend_owned"}
IsMemUpdate(o) == o.op \in {"mem_update", "mem_update_owned"}
IsMemLookup(o) == o.op \in {"mem_fetch", "mem_read", "mem_version"}

\* C14 (as stated): after extend, extend_owned, update, update_owned or
\* clear the table's version is strictly greater than before the call.
C14_EveryMutationRaisesVersion ==
    [][ (IsMemExtend(lastOp') \/ IsMemUpdate(lastOp')
            \/ lastOp'.op = "mem_clear")
        => table'.version > table.version ]_vars

\* C14 (amended): after extend, extend_owned, update or update_owned the
\* table's version is strictly greater than before the call (it is the
\* value next_version() handed out); clear() empties the table and sets the
\* version to 0, which is never greater than the version before.
C14_WritesRaiseVersionClearResets ==
    [][ /\ (IsMemExtend(lastOp') \/ IsMemUpdate(lastOp'))
            => /\ table'.version > table.version
               /\ table'.version = VERSION
               /\ VERSION' = VERSION + 1
        /\ lastOp'.op = "mem_clear"
            => /\ table'.version = 0
               /\ table'.version <= table.version
               /\ table'.rows = <<>> ]_vars

\* a table that had been written (version above 0) was cleared: its
\* version went down to 0
C14_Witness ==
    /\ lastOp.op = "mem_clear" /\ lastOp.before > 0
    /\ table.version = 0 /\ table.version < lastOp.before

\* C15: fetch(), read() and version() of the in-memory table change neither
\* its rows nor its version and draw nothing from the VERSION generator.
C15_LookupsChangeNothing ==
    [][ IsMemLookup(lastOp')
        => /\ table' = table
           /\ VERSION' = VERSION
           /\ lastOp'.op = "mem_version"
                => lastOp'.newVersion = table.version ]_vars

\* a fetch() returned records and the table still has the version it had
C15_Witness ==
    /\ lastOp.op = "mem_fetch" /\ lastOp.out # <<>>
    /\ table.version = lastOp.before /\ table.version > 0

\* C16: after update(from_row, entries) with n entries slot from_row + i
\* holds entries[i] for every i < n, every other slot that existed is as it
\* was, for n > 0 the length is max(old length, from_row + n), the slots
\* between the old length and from_row are absent, and the version differs
\* from the one before. (The source's test on three records, here 1 2 3:
\* update(0, 9 9 9) makes fetch() return 9 9 9.)
C16_UpdateWritesInPlace ==
    [][ IsMemUpdate(lastOp')
        => LET n   == Len(lastOp'.entries)
               f   == lastOp'.from_row
               old == table.rows
               new == table'.rows
           IN  /\ n > 0 => Len(new) = Max(Len(old), f + n)
               /\ n = 0 => new = old
               /\ \A i \in 1..n : new[f + i] = lastOp'.entries[i]
               /\ \A p \in 1..Len(old) :
                     (p <= f \/ p > f + n) => new[p] = old[p]
               /\ \A p \in 1..Len(new) :
                     (p > Len(old) /\ p <= f) => new[p] = None
               /\ table'.version # table.version
               /\ read(_update(InMemTable(<<1, 2, 3>>, 0), 0, <<9, 9, 9>>, 1))
                     = <<9, 9, 9>> ]_vars

\* an update past the end left an absent slot in front of the written one
C16_Witness ==
    /\ IsMemUpdate(lastOp) /\ lastOp.entries # <<>>
    /\ lastOp.from_row > 0
    /\ table.rows[lastOp.from_row] = None
    /\ table.rows[lastOp.from_row + 1] = lastOp.entries[1]

\* the positions of the present slots, and the k-th of them
Present(rows) == {p \in 1..Len(rows) : rows[p] # None}

NthPresent(rows, k) ==
    CHOOSE p \in Present(rows) :
        Cardinality({q \in Present(rows) : q <= p}) = k

PresentInOrder(rows) ==
    [k \in 1..Cardinality(Present(rows)) |-> rows[NthPresent(rows, k)]]

Bucket(map, key) == IF key \in DOMAIN map THEN map[key] ELSE <<>>

\* C18: records whose keys collide are all kept in that key's bucket:
\* extend leaves the pairs a bucket had where they were and adds the new
\* records of that key behind them in the order given; group(key) returns
\* the whole bucket, get_with_row(key) and get(key) its first pair and that
\* pair's value; a key never inserted, and every key after clear(), yields
\* none from all three.
C18_BucketsKeepInsertionOrder ==
    [][ /\ \A key \in Keys :
              /\ (key \in inserted') <=> (group(index', key) # Nothing)
              /\ key \notin inserted'
                   => /\ get_with_row(index', key) = Nothing
                      /\ get(index', key) = Nothing
        /\ lastOp'.op = "index_clear"
             => \A key \in Keys : group(index', key) = Nothing
        /\ lastOp'.op = "index_extend"
             => \A key \in Keys :
                   LET b     == Bucket(index, key)
                       b2    == Bucket(index', key)
                       added == SelectSeq(lastOp'.entries,
                                          LAMBDA e : get_key(0, e) = key)
                   IN  /\ Len(b2) = Len(b) + Len(added)
                       /\ \A j \in 1..Len(b) : b2[j] = b[j]
                       /\ \A j \in 1..Len(added) : b2[Len(b) + j][2] = added[j]
        /\ lastOp'.op = "index_lookup"
             => LET b == Bucket(index, lastOp'.key)
                IN  /\ lastOp'.key \in inserted
                         => /\ b # <<>>
                            /\ lastOp'.found.group = Some(b)
                            /\ lastOp'.found.get_with_row = Some(b[1])
                            /\ lastOp'.found.get = Some(b[1][2])
                    /\ lastOp'.key \notin inserted
                         => /\ lastOp'.found.group = Nothing
                            /\ lastOp'.found.get_with_row = Nothing
                            /\ lastOp'.found.get = Nothing ]_vars

\* a lookup of a key under which two different records were inserted
\* returned both from group() and the first of them from get()
C18_Witness ==
    /\ lastOp.op = "index_lookup" /\ lastOp.found.group # Nothing
    /\ Len(lastOp.found.group[1]) >= 2
    /\ lastOp.found.group[1][1][2] # lastOp.found.group[1][2][2]
    /\ lastOp.found.get = Some(lastOp.found.group[1][1][2])
    /\ \E key \in Keys : key \notin inserted

\* C19: update(from_row, entries): for each i, when the bucket of
\* key(entries[i]) already holds a pair with row from_row + i that pair's
\* value is replaced in place (the bucket's order and length stay),
\* otherwise the pair (from_row + i, value) is appended at the end; after
\* the call that bucket holds exactly one pair with row from_row + i.
C19_UpdateReplacesOrAppends ==
    [][ lastOp'.op = "index_update"
        => \A i \in 1..Len(lastOp'.entries) :
              LET row == lastOp'.from_row + i - 1
                  e   == lastOp'.entries[i]
                  b   == Bucket(index, get_key(row, e))
                  b2  == Bucket(index', get_key(row, e))
                  had == \E j \in 1..Len(b) : b[j][1] = row
              IN  /\ Len(b2) >= Len(b)
                  /\ \A j \in 1..Len(b) : b2[j][1] = b[j][1]
                  /\ had => \E j \in 1..Len(b) : b2[j] = <<row, e>>
                  /\ ~had => \E j \in (Len(b) + 1)..Len(b2) : b2[j] = <<row, e>>
                  /\ Cardinality({j \in 1..Len(b2) : b2[j][1] = row}) = 1 ]_vars

C21_NoMetaAlwaysRebuilds ==
    [][ (IsRefresh(lastOp') /\ Bare)
        => /\ lastOp'.gotVersion
           /\ lastOp'.newVersion = VERSION
           /\ sheet'.version = lastOp'.newVersion
           /\ lastOp'.newVersion # sheet.version
           /\ lastOp'.newVersion # observed
           /\ lastOp'.newVersion # last_origin_version
           /\ lastOp'.fetchCalls = 1
           /\ lastOp'.result = "Ok"
                => /\ lastOp'.clearCalls = 1 /\ lastOp'.extendCalls = 1
                   /\ cache'.rows = read(origin)
                   /\ cache'.version # cache.version ]_vars

\* a refresh() that was not preceded by mark_as_dirty() rebuilt a mirror
\* that already held what the spreadsheet holds
C21_Witness ==
    /\ lastOp.op = "refresh" /\ Bare /\ ~lastOp.wasDirty
    /\ lastOp.fetchCalls = 1 /\ lastOp.extendCalls = 1
    /\ lastOp.result = "Ok" /\ lastOp.fetched # <<>>
    /\ observed > 2 /\ VERSION >= 6

IsSheetWrite(o) == o.op \in {"sheet_extend", "sheet_update"}
IsTaskStep(o)   == o.op \in {"task_probe", "task_submit"}

\* C22: Sheet extend() / update() are detached writes. The call returns Ok
\* when the task is scheduled: the spreadsheet is as it was, the task is
\* pending, and the caller's version fields and the generator are untouched.
\* A task that fails (probe, serialization or remote error) is gone after
\* the failing step (no retry) and leaves nothing behind that the caller or
\* a later operation could see: the caller's Sheet is as it was, and where
\* the edit did not land the spreadsheet and the generator are as well.
C22_WritesAreDetached ==
    [][ /\ IsSheetWrite(lastOp')
          => /\ lastOp'.result = "Ok"
             /\ sheet'.rows = sheet.rows /\ sheet'.meta = sheet.meta
             /\ sheet'.version = sheet.version
             /\ sheet'.version_hash = sheet.version_hash
             /\ VERSION' = VERSION
             /\ Len(sheet'.tasks) = Len(sheet.tasks) + 1
             /\ sheet'.tasks[Len(sheet'.tasks)].entries = lastOp'.entries
             /\ sheet'.tasks[Len(sheet'.tasks)].pc \in {"probe", "submit"}
        /\ IsTaskStep(lastOp')
          => /\ sheet'.version = sheet.version
             /\ sheet'.version_hash = sheet.version_hash
             /\ sheet'.seen = sheet.seen /\ sheet'.trail = sheet.trail
             /\ sheet'.fetched = sheet.fetched
        /\ (IsTaskStep(lastOp') /\ lastOp'.result # "Ok")
          => /\ Len(sheet'.tasks) = Len(sheet.tasks) - 1
             /\ lastOp'.originWrite # "ok"
                  => /\ [sheet' EXCEPT !.tasks = sheet.tasks] = sheet
                     /\ VERSION' = VERSION ]_vars

\* a write returned Ok to a caller that had just read the version, and its
\* task then failed at the remote call
C22_Witness ==
    /\ lastOp.op = "task_submit" /\ lastOp.result = "Sheets"
    /\ lastOp.originWrite = "err"
    /\ sheet.trail = <<"version", "write">>
    /\ sheet.tasks = <<>>

\* C23: with a meta region, a version() call issued right after update() or
\* extend() returned Ok yields a version different from the one version()
\* returned right before the write, however the detached task and the
\* caller interleave.
C23_VersionMovesAfterWrite ==
    [][ (/\ lastOp'.op = "sheet_version" /\ lastOp'.result = "Ok"
         /\ lastOp'.afterWrite /\ sheet.has_meta)
        => lastOp'.newVersion # lastOp'.before ]_vars

C25_GeneratorNeverRepeats ==
    /\ \A i, j \in DOMAIN gen : i < j => gen[i].value < gen[j].value
    /\ \A i \in DOMAIN gen : gen[i].value < VERSION
    /\ Cardinality({gen[i].value : i \in DOMAIN gen}) = Len(gen)

\* two tasks have called next_version() in turn, several times
C25_Witness ==
    /\ Len(gen) >= 4
    /\ gen[1].task # gen[2].task
    /\ gen[2].task # gen[3].task
    /\ gen[3].task = gen[4].task

\* C26: Cache.version() reports the mirror's version. What it reports
\* differs before and after a fetch() / refresh() that rebuilds the mirror
\* and before and after an extend / update through the cache that wrote the
\* mirror; a refresh() that finds the origin version unchanged leaves it as
\* it was, and the call itself changes nothing.
C26_VersionIsTheMirrors ==
    [][ /\ lastOp'.op = "version"
          => /\ lastOp'.newVersion = cache.version
             /\ cache' = cache /\ origin' = origin
             /\ last_origin_version' = last_origin_version
             /\ VERSION' = VERSION
        /\ (IsRefresh(lastOp') /\ lastOp'.result = "Ok"
              /\ lastOp'.extendCalls = 1)
          => version_of(cache', last_origin_version')
               # version_of(cache, last_origin_version)
        /\ (IsWrite(lastOp') /\ lastOp'.mirrorWrite = "ok")
          => version_of(cache', last_origin_version')
               # version_of(cache, last_origin_version)
        /\ (IsRefresh(lastOp') /\ lastOp'.gotVersion
              /\ lastOp'.fetchCalls = 0)
          => version_of(cache', last_origin_version')
               = version_of(cache, last_origin_version) ]_vars

\* version() called on a mirror that was rebuilt or written since it was made
C26_Witness ==
    /\ lastOp.op = "version"
    /\ lastOp.newVersion = cache.version
    /\ lastOp.newVersion > 2
    /\ lastOp.newVersion # last_origin_version
    /\ cache.rows # <<>>

AllScalar(kinds) == \A i \in DOMAIN kinds : kinds[i] \in Scalars

\* C27: row protocol round trip: a struct whose fields are all scalars is
\* written to one cell per field, and reading the written row back yields
\* Ok with every field equal to the original.
C27_RowRoundTrip ==
    /\ (codec.side = "ser" /\ codec.status = "Ok" /\ AllScalar(codec.kinds))
         => Len(codec.cells) = Len(codec.kinds)
    /\ (/\ codec.trip /\ codec.side = "de" /\ codec.shape = "struct"
        /\ AllScalar(codec.kinds) /\ codec.status \notin {"new", "run"})
         => codec.status = "Ok" /\ codec.out = codec.values

IsBegin(o) == o.op \in {"serialize_begin", "deserialize_begin"}
IsField(o) == o.op \in {"serialize_field", "deserialize_field"}

TypedBeginError(side, kind) ==
    IF side = "ser" THEN "UnexpectedSequence"
    ELSE CASE kind = "seq"   -> "UnexpectedSequence"
           [] kind = "tuple" -> "UnexpectedTuple"
           [] OTHER          -> "UnexpectedStruct"

\* C28: rows are flat. In one serializer or deserializer a sequence, tuple
\* or struct may begin once: the first begin succeeds and sets the flag,
\* a begin while the flag is set fails with the typed error of its kind, a
\* map begin fails with UnexpectedMap whatever the flag, and the flag, once
\* set, stays set.
C28_OneBeginPerRow ==
    [][ /\ (IsBegin(lastOp') /\ codec.shape \in Compounds \ {"map"})
          => /\ ~codec.seq_began
             /\ codec'.status = "run" /\ codec'.seq_began
        /\ (IsBegin(lastOp') /\ codec.shape = "map")
          => codec'.status = "UnexpectedMap" /\ ~codec'.seq_began
        /\ (/\ IsField(lastOp') /\ codec.kinds[codec.at] \in Compounds
            /\ codec.side = "de" => codec.data # <<>>)
          => /\ codec.seq_began /\ codec'.seq_began
             /\ codec'.status =
                  IF codec.kinds[codec.at] = "map" THEN "UnexpectedMap"
                  ELSE TypedBeginError(codec.side, codec.kinds[codec.at])
        /\ (codec'.side = codec.side /\ codec.seq_began)
          => codec'.seq_began ]_vars

\* a struct was begun and its tuple field was refused
C28_Witness ==
    /\ codec.side = "de" /\ codec.shape = "struct"
    /\ codec.seq_began
    /\ codec.status = "UnexpectedTuple"
    /\ codec.out # <<>>

\* C29: decoding a record type from a row ends in Ok or in a typed error
\* and never panics, in particular when the row has fewer cells than the
\* type has fields and the next field is an optional or a unit.
C29_DecodeNeverPanics ==
    codec.side = "de" => codec.status # "panic"

\* the reference names an end column before its start column, or an end
\* row before its start row
EndBeforeStart(ref) ==
    /\ ref.has_end
    /\ \/ to_col(ref.c_end) < to_col(ref.c_start)
       \/ ref.r_end # Nothing /\ ref.r_end[1] < to_row(ref.r_start, 1)

\* C30: parsing rejects every reference whose end column is before its
\* start column or whose end row is before its start row (as "S!B1:A1",
\* "S!A3:A2"); every accepted region has a non-empty column span and, when
\* it is bounded, a non-empty row span.
C30_ReversedRejected ==
    (range.pc = "parsed" /\ range.ref.matches)
      => /\ EndBeforeStart(range.ref) => ~range.result.ok
         /\ range.result.ok
              => /\ range.result.c_start < range.result.c_end
                 /\ range.result.r_end # Nothing
                      => range.result.r_start < range.result.r_end[1]

\* the number a column name stands for, A = 1 .. Z = 26, AA = 27
ColumnNumber(letters) ==
    IF Len(letters) = 1 THEN letters[1] ELSE 26 * letters[1] + letters[2]

\* C31: parsing reads column letters as 1-indexed bijective base-26: in an
\* accepted reference the start column becomes a zero-based index, the end
\* column an exclusive zero-based bound, the start row a zero-based index
\* (row 1 when omitted), an omitted end row stays unbounded, and a
\* reference without a colon is the 1x1 region at its cell.
C31_ColumnsAreBase26 ==
    (/\ range.pc = "parsed" /\ ~range.trip
     /\ range.ref.matches /\ range.result.ok)
      => LET ref == range.ref
             res == range.result
         IN  /\ res.c_start = ColumnNumber(ref.c_start) - 1
             /\ res.r_start = IF ref.r_start = Nothing THEN 0
                              ELSE ref.r_start[1] - 1
             /\ ref.has_end
                  => /\ res.c_end = ColumnNumber(ref.c_end)
                     /\ res.r_end = ref.r_end
             /\ ~ref.has_end
                  => /\ res.c_end = res.c_start + 1
                     /\ res.r_end = Some(res.r_start + 1)

\* "S!A2:AA3" was parsed
C31_Witness ==
    /\ range.pc = "parsed" /\ ~range.trip
    /\ range.ref = Reference(TRUE, <<1>>, Some(2), TRUE, <<1, 1>>, Some(3))
    /\ range.result = Parsed(TRUE, 0, 27, 1, Some(3))

\* C40: stringify / parse round trip: for every SheetRange with
\* c_start < c_end, bounded or not, parsing the text to_string() produced
\* yields the same c_start, c_end, r_start and r_end, whatever the columns.
C40_StringifyParseRoundTrip ==
    (range.trip /\ range.pc = "parsed") => range.result = range.region

\* C32: a refresh() that fails (the origin's version or fetch, or the
\* mirror's clear or extend returns Err) leaves the last-observed version as
\* it was, so the next refresh() tries the fetch and the rebuild again.
C32_FailedRefreshKeepsLastObserved ==
    [][ (IsRefresh(lastOp') /\ lastOp'.result # "Ok")
        => last_origin_version' = last_origin_version ]_vars

\* C37: when extend / update through the Cache returns Error::Origin, the
\* mirror's content and version are what they were before the call.
C37_OriginErrorLeavesMirror ==
    [][ (IsWrite(lastOp') /\ lastOp'.result = "Origin")
        => cache' = cache ]_vars

\* C33: in a fork of a table and an Index, every pair <<row, value>> held by
\* the Index names the position of that record in the table: the slot at
\* `row` exists and holds `value`.
C33_IndexRowsAreTablePositions ==
    \A k \in DOMAIN index :
        \A j \in 1..Len(index[k]) :
            /\ index[k][j][1] < Len(table.rows)
            /\ table.rows[index[k][j][1] + 1] = index[k][j][2]

\* C34: after update(from_row, entries) no bucket other than the one of the
\* record's key holds a pair for a row the update wrote.
C34_OnePairPerRow ==
    [][ lastOp'.op = "index_update"
        => \A i \in 1..Len(lastOp'.entries) :
              \A k \in DOMAIN index' :
                  k # get_key(lastOp'.from_row + i - 1, lastOp'.entries[i])
                  => \A j \in 1..Len(index'[k]) :
                        index'[k][j][1] # lastOp'.from_row + i - 1 ]_vars

\* C38: a table that reports the same version before and after an operation
\* holds the same rows before and after it.
C38_VersionIsFingerprint ==
    [][ table'.version = table.version => table'.rows = table.rows ]_vars


C35_MirrorPositionIsDataRow ==
    (lastOp.op = "sheet_fetch" /\ lastOp.result = "Ok")
    => \A i \in 1..Len(lastOp.out) :
          /\ i <= Len(lastOp.fetched)
          /\ lastOp.out[i] = lastOp.fetched[i]

\* C36: with extend tasks only in flight, a task whose edit lands adds every
\* record it was given to the data region and takes none away: the number
\* of records in the region grows by the length of its batch.
C36_ExtendsDoNotOverwrite ==
    [][ (/\ lastOp'.op = "task_submit" /\ lastOp'.originWrite = "ok"
         /\ \A i \in 1..Len(sheet.tasks) : sheet.tasks[i].op = "extend")
        => \E i \in 1..Len(sheet.tasks) :
              /\ sheet.tasks[i].pc = "submit"
              /\ Len(sheet'.tasks) = Len(sheet.tasks) - 1
              /\ Len(decoded(sheet'.rows))
                    = Len(decoded(sheet.rows)) + Len(sheet.tasks[i].entries)
       ]_vars

====
